---- MODULE Spec2Model ----
(***************************************************************************)
(* The type lattice (byterun/constraint/types.py) and the constraint store *)
(* (byterun/constraint/constraint_store.py) as a state machine.            *)
(*                                                                         *)
(* A type is a record tagged by k, the name of its Python class.  A dict   *)
(* of members is a total function over Names whose value is Absent for a   *)
(* key that is not in the dict.  A class is its name, looked up in a class *)
(* table; an MRO is the sequence of the names of its classes.              *)
(*                                                                         *)
(* Two records are the same value exactly when Python's set and dict treat *)
(* the two objects as one entry (equal hash and __eq__); __eq__ alone is   *)
(* the operator TypeEq, which, like Instance.__eq__, does not look at an   *)
(* Instance's name although Instance.__hash__ does.                        *)
(***************************************************************************)
EXTENDS Integers, Sequences, FiniteSets, TLC

VARIABLES constraints, completed_constraints, target_types, variables,
          next_identity, op, args, ret, _classes, local_seqs, local_res

vars == <<constraints, completed_constraints, target_types, variables,
          next_identity, op, args, ret, _classes, local_seqs, local_res>>

(* The fields of one MRO object and the locals of one merge_mros call. *)
mro_vars == <<_classes, local_seqs, local_res>>

store_vars == <<constraints, completed_constraints, target_types, variables,
                next_identity>>

----------------------------------------------------------------------------
(* Terms *)

Names == {"a", "x"}

Absent == [k |-> "Absent"]

EmptyDict == [n \in Names |-> Absent]

NoName == "None"

Object == [k |-> "Object"]

Nothing == [k |-> "Nothing"]

Dynamic == [k |-> "Dynamic"]

Function(argument_types, return_type) ==
  [k |-> "Function", argument_types |-> argument_types,
   return_type |-> return_type]

Instance(mro, other_members, name) ==
  [k |-> "Instance", mro |-> mro, other_members |-> other_members,
   name |-> name]

UnionOf(subtypes) == [k |-> "Union", subtypes |-> subtypes]

Constant(values, value_type) ==
  [k |-> "ConstantType", values |-> values, value_type |-> value_type]

Variable(identity) == [k |-> "Variable", identity |-> identity]

Keys(d) == {n \in Names : d[n] # Absent}

DictUpdate(d, e) == [n \in Names |-> IF e[n] # Absent THEN e[n] ELSE d[n]]

----------------------------------------------------------------------------
(* The classes of the hierarchy A, B, C(B), D(B) of the unit tests. *)

ty_a == Instance(<<"A">>, EmptyDict, "A")

(* E is a class whose body binds x to the literal 1. *)
class_members(cls) ==
  IF cls = "B" THEN [EmptyDict EXCEPT !["a"] = ty_a]
  ELSE IF cls = "E" THEN [EmptyDict EXCEPT !["x"] = Constant({1}, ty_a)]
  ELSE EmptyDict

instance_members(cls) ==
  IF cls = "D" THEN [EmptyDict EXCEPT !["x"] = ty_a] ELSE EmptyDict

ty_b == Instance(<<"B">>, EmptyDict, "B")

ty_c == Instance(<<"C", "B">>, EmptyDict, "C")

ty_d == Instance(<<"D", "B">>, EmptyDict, "D")

----------------------------------------------------------------------------
(* __eq__ *)

RECURSIVE TypeEq(_, _)
TypeEq(self, other) ==
  IF self.k # other.k THEN FALSE
  ELSE CASE self.k = "Union" -> self.subtypes = other.subtypes
         [] self.k = "Function" ->
              /\ Len(self.argument_types) = Len(other.argument_types)
              /\ \A i \in 1..Len(self.argument_types) :
                   TypeEq(self.argument_types[i], other.argument_types[i])
              /\ TypeEq(self.return_type, other.return_type)
         [] self.k = "Instance" ->
              /\ self.mro = other.mro
              /\ \A n \in Names :
                   TypeEq(self.other_members[n], other.other_members[n])
         [] self.k = "ConstantType" ->
              /\ TypeEq(self.value_type, other.value_type)
              /\ self.values = other.values
         [] self.k = "Variable" -> self.identity = other.identity
         [] OTHER -> TRUE

----------------------------------------------------------------------------
(* Helpers of Instance *)

RECURSIVE is_subsequence(_, _)
is_subsequence(left, right) ==
  IF left = <<>> THEN TRUE
  ELSE IF right = <<>> THEN FALSE
  ELSE IF Head(right) = Head(left)
       THEN is_subsequence(Tail(left), Tail(right))
       ELSE is_subsequence(left, Tail(right))

RECURSIVE mro_fold(_)
mro_fold(mro) ==
  IF mro = <<>> THEN EmptyDict
  ELSE DictUpdate(DictUpdate(mro_fold(Tail(mro)), class_members(Head(mro))),
                  instance_members(Head(mro)))

mro_to_structure(mro, overrides) == DictUpdate(mro_fold(mro), overrides)

get_structure(self) ==
  DictUpdate(mro_to_structure(self.mro, EmptyDict), self.other_members)

----------------------------------------------------------------------------
(* issubtypeof, on types without variables *)

RECURSIVE issubtypeof(_, _)

dict_is_subtype(sub_dict, super_dict) ==
  \A name \in Keys(sub_dict) :
    /\ super_dict[name] # Absent
    /\ issubtypeof(sub_dict[name], super_dict[name])

Union_issupertypeof(self, other) ==
  LET others == IF other.k = "Union" THEN other.subtypes ELSE {other}
  IN \A t \in others : \E o \in self.subtypes : issubtypeof(t, o)

Type_issubtypeof(self, other) ==
  IF TypeEq(self, other) THEN TRUE
  ELSE CASE other.k = "Object" -> TRUE
         [] other.k = "Nothing" -> FALSE
         [] other.k = "Dynamic" -> FALSE
         [] other.k = "ConstantType" -> issubtypeof(self, other.value_type)
         [] other.k = "Union" -> Union_issupertypeof(other, self)
         [] OTHER -> FALSE

Object_issubtypeof(self, other) == FALSE

Nothing_issubtypeof(self, other) == TRUE

Dynamic_issubtypeof(self, other) == FALSE

Union_issubtypeof(self, other) ==
  LET others == IF other.k = "Union" THEN other.subtypes ELSE {other}
  IN \A t \in self.subtypes : \E o \in others : issubtypeof(t, o)

Function_issubtypeof_covariant(self, other) ==
  IF other.k = "Function"
       /\ Len(other.argument_types) = Len(self.argument_types)
  THEN /\ \A i \in 1..Len(self.argument_types) :
            issubtypeof(self.argument_types[i], other.argument_types[i])
       /\ issubtypeof(self.return_type, other.return_type)
  ELSE IF other.k = "Function" THEN FALSE
  ELSE IF other.k = "Instance" THEN FALSE
  ELSE Type_issubtypeof(self, other)

Function_issubtypeof(self, other) ==
  IF other.k = "Function"
       /\ Len(other.argument_types) = Len(self.argument_types)
  THEN /\ \A i \in 1..Len(self.argument_types) :
            issubtypeof(other.argument_types[i], self.argument_types[i])
       /\ issubtypeof(self.return_type, other.return_type)
  ELSE IF other.k = "Function" THEN FALSE
  ELSE IF other.k = "Instance" THEN FALSE
  ELSE Type_issubtypeof(self, other)

Instance_issubtypeof(self, other) ==
  IF other.k = "Instance"
  THEN /\ is_subsequence(other.mro, self.mro)
       /\ dict_is_subtype(self.other_members, get_structure(other))
  ELSE IF other.k = "Function" THEN FALSE
  ELSE Type_issubtypeof(self, other)

ConstantType_issubtypeof(self, other) ==
  IF other.k = "ConstantType"
  THEN /\ self.values \subseteq other.values
       /\ issubtypeof(self.value_type, other.value_type)
  ELSE issubtypeof(self.value_type, other)

issubtypeof(self, other) ==
  CASE self.k = "Object" -> Object_issubtypeof(self, other)
    [] self.k = "Nothing" -> Nothing_issubtypeof(self, other)
    [] self.k = "Dynamic" -> Dynamic_issubtypeof(self, other)
    [] self.k = "Union" -> Union_issubtypeof(self, other)
    [] self.k = "Function" -> Function_issubtypeof(self, other)
    [] self.k = "Instance" -> Instance_issubtypeof(self, other)
    [] self.k = "ConstantType" -> ConstantType_issubtypeof(self, other)
    [] OTHER -> Type_issubtypeof(self, other)

Type_issupertypeof(self, other) == issubtypeof(other, self)

Object_issupertypeof(self, other) == TRUE

Nothing_issupertypeof(self, other) == FALSE

Dynamic_issupertypeof(self, other) == FALSE

issupertypeof(self, other) ==
  CASE self.k = "Object" -> Object_issupertypeof(self, other)
    [] self.k = "Nothing" -> Nothing_issupertypeof(self, other)
    [] self.k = "Dynamic" -> Dynamic_issupertypeof(self, other)
    [] self.k = "Union" -> Union_issupertypeof(self, other)
    [] OTHER -> Type_issupertypeof(self, other)

----------------------------------------------------------------------------
(* Visitors *)

RECURSIVE contains_variable(_)
contains_variable(tp) ==
  CASE tp.k = "Variable" -> TRUE
    [] tp.k = "Function" ->
         \/ \E i \in 1..Len(tp.argument_types) :
              contains_variable(tp.argument_types[i])
         \/ contains_variable(tp.return_type)
    [] tp.k = "Instance" ->
         \E n \in Keys(tp.other_members) :
           contains_variable(tp.other_members[n])
    [] tp.k = "Union" -> \E t \in tp.subtypes : contains_variable(t)
    [] OTHER -> FALSE

----------------------------------------------------------------------------
(* Union.__new__ *)

_flatten_subtypes(subtypes) ==
  UNION {IF ty.k = "Union" THEN ty.subtypes ELSE {ty} : ty \in subtypes}

Union(subtypes) ==
  LET subtype_set == _flatten_subtypes(subtypes)
  IN IF Cardinality(subtype_set) = 1
     THEN CHOOSE ty \in subtype_set : TRUE
     ELSE IF subtype_set = {} THEN Nothing
     ELSE UnionOf(subtype_set)

----------------------------------------------------------------------------
(* The store as a value st, so that join and meet, which allocate         *)
(* variables and add constraints, can be composed.  A constraint is a     *)
(* namedtuple (left, right): its hash and its equality are the tuple's,   *)
(* so the set keeps one entry per pair (left, right), whatever its class. *)

SubtypeConstraint(left, right) ==
  [tag |-> "SubtypeConstraint", left |-> left, right |-> right]

EqualityConstraint(left, right) ==
  [tag |-> "EqualityConstraint", left |-> left, right |-> right]

InConstraints(constraint, cs) ==
  \E c \in cs : c.left = constraint.left /\ c.right = constraint.right

TypeError == [k |-> "TypeError"]

Ret(ty, st) == [ty |-> ty, st |-> st]

new_variable(st) ==
  Ret(Variable(st.next_identity),
      [st EXCEPT !.variables = @ \cup {Variable(st.next_identity)},
                 !.next_identity = @ + 1])

store_issubtypeof(st, type1, type2) ==
  IF ~contains_variable(type1) /\ ~contains_variable(type2)
  THEN IF issubtypeof(type1, type2) THEN "True" ELSE "False"
  ELSE IF InConstraints(SubtypeConstraint(type1, type2), st.constraints)
       THEN "True"
       ELSE "None"

store_issupertypeof(st, type1, type2) == store_issubtypeof(st, type2, type1)

constrain_subtype(st, a, b) ==
  IF ~TypeEq(a, b) /\ ~InConstraints(SubtypeConstraint(a, b), st.constraints)
  THEN [st EXCEPT !.constraints = @ \cup {SubtypeConstraint(a, b)}]
  ELSE st

constrain_supertype(st, a, b) == constrain_subtype(st, b, a)

constrain_equal(st, a, b) ==
  IF ~TypeEq(a, b) /\ ~InConstraints(EqualityConstraint(a, b), st.constraints)
  THEN [st EXCEPT !.constraints = @ \cup {EqualityConstraint(a, b)}]
  ELSE st

new_variable_supertype_unknown_as_true(st, sub1, sub2) ==
  IF store_issupertypeof(st, sub1, sub2) # "False" THEN Ret(sub1, st)
  ELSE IF store_issupertypeof(st, sub2, sub1) # "False" THEN Ret(sub2, st)
  ELSE LET v == new_variable(st)
       IN Ret(v.ty, constrain_supertype(constrain_supertype(v.st, v.ty, sub1),
                                        v.ty, sub2))

new_variable_supertype(st, sub1, sub2) ==
  IF store_issupertypeof(st, sub1, sub2) = "True" THEN Ret(sub1, st)
  ELSE IF store_issupertypeof(st, sub2, sub1) = "True" THEN Ret(sub2, st)
  ELSE LET v == new_variable(st)
       IN Ret(v.ty, constrain_supertype(constrain_supertype(v.st, v.ty, sub1),
                                        v.ty, sub2))

new_variable_subtype(st, super1, super2) ==
  IF store_issubtypeof(st, super1, super2) = "True" THEN Ret(super1, st)
  ELSE IF store_issubtypeof(st, super2, super1) = "True" THEN Ret(super2, st)
  ELSE LET v == new_variable(st)
       IN Ret(v.ty, constrain_subtype(constrain_subtype(v.st, v.ty, super1),
                                      v.ty, super2))

----------------------------------------------------------------------------
(* longest_common_subsequence.  table is indexed as in the code, where a  *)
(* negative index counts from the end of the list.                        *)

Max(x, y) == IF x > y THEN x ELSE y

RECURSIVE lcs_table(_, _, _, _)
lcs_table(seq1, seq2, i, j) ==
  IF i = 0 \/ j = 0 THEN 0
  ELSE IF seq1[i] = seq2[j] THEN lcs_table(seq1, seq2, i - 1, j - 1) + 1
  ELSE Max(lcs_table(seq1, seq2, i - 1, j), lcs_table(seq1, seq2, i, j - 1))

table_at(seq1, seq2, i, j) ==
  lcs_table(seq1, seq2,
            IF i < 0 THEN i + Len(seq1) + 1 ELSE i,
            IF j < 0 THEN j + Len(seq2) + 1 ELSE j)

RECURSIVE lcs_read(_, _, _, _, _)
lcs_read(seq1, seq2, i, j, acc) ==
  IF ~(i >= 0 /\ j >= 0) THEN acc
  ELSE IF seq1[i + 1] = seq2[j + 1]
       THEN lcs_read(seq1, seq2, i - 1, j - 1,
                     [acc EXCEPT !.lcs = <<seq1[i + 1]>> \o @])
       ELSE IF table_at(seq1, seq2, i, j - 1) > table_at(seq1, seq2, i - 1, j)
            THEN lcs_read(seq1, seq2, i, j - 1,
                          [acc EXCEPT !.lost2 = <<seq2[j + 1]>> \o @])
            ELSE lcs_read(seq1, seq2, i - 1, j,
                          [acc EXCEPT !.lost1 = <<seq1[i + 1]>> \o @])

longest_common_subsequence(seq1, seq2) ==
  lcs_read(seq1, seq2, Len(seq1) - 1, Len(seq2) - 1,
           [lcs |-> <<>>, lost1 |-> <<>>, lost2 |-> <<>>])

----------------------------------------------------------------------------
(* merge_mros: ok is FALSE where the code raises TypeError. *)

InSeq(x, seq) == \E i \in 1..Len(seq) : seq[i] = x

NonEmpty(seq) == seq # <<>>

RECURSIVE merge_loop(_, _)
merge_loop(seqs, res) ==
  LET nonemptyseqs == SelectSeq(seqs, NonEmpty)
      Good(k) == ~\E i \in 1..Len(nonemptyseqs) :
                    InSeq(nonemptyseqs[k][1], Tail(nonemptyseqs[i]))
      found == {k \in 1..Len(nonemptyseqs) : Good(k)}
      first == CHOOSE k \in found : \A l \in found : k <= l
      cand == nonemptyseqs[first][1]
  IN IF nonemptyseqs = <<>> THEN [ok |-> TRUE, mro |-> res]
     ELSE IF found = {} THEN [ok |-> FALSE, mro |-> res]
     ELSE merge_loop([i \in 1..Len(seqs) |->
                        IF seqs[i] # <<>> /\ seqs[i][1] = cand
                        THEN Tail(seqs[i]) ELSE seqs[i]],
                     Append(res, cand))

merge_mros(seqs) == merge_loop(seqs, <<>>)

----------------------------------------------------------------------------
(* join and meet.  Both take the store and return the type with the store *)
(* as the call left it; the type is TypeError where the code raises it,   *)
(* and the store is then as it was when the exception was raised.         *)
(* Dicts and sets of the code are walked in the order NameOrder and in    *)
(* ascending order of the values.                                         *)

NameOrder == <<"a", "x">>

type_map(v) == IF v \in {1, 2} THEN ty_a ELSE Absent

RECURSIVE SortedSeq(_)
SortedSeq(S) ==
  IF S = {} THEN <<>>
  ELSE LET m == CHOOSE x \in S : \A y \in S : x <= y
       IN <<m>> \o SortedSeq(S \ {m})

RECURSIVE binop(_, _, _, _)

join(self, other, st) == binop("join", self, other, st)

meet(self, other, st) == binop("meet", self, other, st)

RECURSIVE zip_binop(_, _, _, _, _)
zip_binop(which, as, bs, i, acc) ==
  IF i > Len(as) \/ ~acc.ok THEN acc
  ELSE LET r == binop(which, as[i], bs[i], acc.st)
       IN IF r.ty = TypeError
          THEN [tys |-> acc.tys, st |-> r.st, ok |-> FALSE]
          ELSE zip_binop(which, as, bs, i + 1,
                         [tys |-> Append(acc.tys, r.ty), st |-> r.st,
                          ok |-> TRUE])

RECURSIVE seq_binop(_, _, _, _)
seq_binop(which, seq, i, acc) ==
  IF i > Len(seq) \/ acc.ty = TypeError THEN acc
  ELSE seq_binop(which, seq, i + 1, binop(which, acc.ty, seq[i], acc.st))

join_seq(seq, st) == seq_binop("join", seq, 1, Ret(Nothing, st))

meet_seq(seq, st) == seq_binop("meet", seq, 1, Ret(Object, st))

InBoth(dict1, dict2) ==
  SelectSeq(NameOrder, LAMBDA n : dict1[n] # Absent /\ dict2[n] # Absent)

IndexOf(seq, x) == CHOOSE i \in 1..Len(seq) : seq[i] = x

dict_binop(which, dict1, dict2, st) ==
  LET both == InBoth(dict1, dict2)
      r == zip_binop(which, [i \in 1..Len(both) |-> dict1[both[i]]],
                     [i \in 1..Len(both) |-> dict2[both[i]]], 1,
                     [tys |-> <<>>, st |-> st, ok |-> TRUE])
  IN [d |-> [n \in Names |->
               IF r.ok /\ InSeq(n, both) THEN r.tys[IndexOf(both, n)]
               ELSE Absent],
      st |-> r.st, ok |-> r.ok]

dict_join(dict1, dict2, st) == dict_binop("join", dict1, dict2, st)

dict_meet(dict1, dict2, st) ==
  LET r == dict_binop("meet", dict1, dict2, st)
  IN [r EXCEPT !.d = [n \in Names |->
                        IF r.d[n] # Absent THEN r.d[n]
                        ELSE IF dict1[n] # Absent THEN dict1[n]
                        ELSE dict2[n]]]

ConstantType(values, with_type, st) ==
  LET vs == SortedSeq(values)
      mapped == SelectSeq(vs, LAMBDA v : type_map(v) # Absent)
      r == join_seq(<<IF with_type = Absent THEN Nothing ELSE with_type>>
                      \o [i \in 1..Len(mapped) |-> type_map(mapped[i])], st)
  IN IF r.ty = TypeError THEN r ELSE Ret(Constant(values, r.ty), r.st)

Type_join(self, other, st) ==
  IF other.k \in {"Object", "Nothing", "Dynamic"} THEN join(other, self, st)
  ELSE IF other.k = "ConstantType" THEN join(self, other.value_type, st)
  ELSE IF other.k = "Variable" THEN new_variable_supertype(st, other, self)
  ELSE Ret(TypeError, st)

Type_meet(self, other, st) ==
  IF other.k \in {"Object", "Nothing", "Dynamic"} THEN meet(other, self, st)
  ELSE IF other.k = "ConstantType" THEN meet(self, other.value_type, st)
  ELSE IF other.k = "Variable" THEN new_variable_subtype(st, other, self)
  ELSE Ret(TypeError, st)

Object_join(self, other, st) == Ret(self, st)

Object_meet(self, other, st) == Ret(other, st)

Nothing_join_absorbing(self, other, st) == Ret(self, st)

Nothing_join(self, other, st) == Ret(other, st)

Nothing_meet(self, other, st) == Ret(self, st)

Dynamic_join(self, other, st) == Ret(self, st)

Dynamic_meet(self, other, st) == Ret(self, st)

Union_join(self, other, st) ==
  IF other.k = "Union"
  THEN Ret(Union(self.subtypes \cup other.subtypes), st)
  ELSE IF other.k = "Function" \/ other.k = "Instance"
  THEN Ret(Union(self.subtypes \cup {other}), st)
  ELSE Type_join(self, other, st)

Union_meet(self, other, st) ==
  IF other.k = "Union"
  THEN Ret(Union(self.subtypes \cap other.subtypes), st)
  ELSE IF other.k = "Function" \/ other.k = "Instance"
  THEN IF self.subtypes \cap {other} # {}
       THEN Ret(Union(self.subtypes \cap {other}), st)
       ELSE new_variable_subtype(st, other, self)
  ELSE Type_meet(self, other, st)

Function_join(self, other, st) ==
  IF other.k = "Function"
       /\ Len(other.argument_types) = Len(self.argument_types)
  THEN LET arguments == zip_binop("meet", other.argument_types,
                                  self.argument_types, 1,
                                  [tys |-> <<>>, st |-> st, ok |-> TRUE])
           ret_type == join(self.return_type, other.return_type, arguments.st)
       IN IF ~arguments.ok THEN Ret(TypeError, arguments.st)
          ELSE IF ret_type.ty = TypeError THEN ret_type
          ELSE Ret(Function(arguments.tys, ret_type.ty), ret_type.st)
  ELSE IF other.k = "Function" THEN Ret(Object, st)
  ELSE IF other.k = "Union" THEN join(other, self, st)
  ELSE Type_join(self, other, st)

Function_meet(self, other, st) ==
  IF other.k = "Function"
       /\ Len(other.argument_types) = Len(self.argument_types)
  THEN LET arguments == zip_binop("join", other.argument_types,
                                  self.argument_types, 1,
                                  [tys |-> <<>>, st |-> st, ok |-> TRUE])
           ret_type == meet(self.return_type, other.return_type, arguments.st)
       IN IF ~arguments.ok THEN Ret(TypeError, arguments.st)
          ELSE IF ret_type.ty = TypeError THEN ret_type
          ELSE Ret(Function(arguments.tys, ret_type.ty), ret_type.st)
  ELSE IF other.k = "Union" THEN meet(other, self, st)
  ELSE IF other.k = "Function" THEN Ret(Nothing, st)
  ELSE Type_meet(self, other, st)

Instance_join(self, other, st) ==
  IF other.k = "Instance"
  THEN LET l == longest_common_subsequence(self.mro, other.mro)
           members == dict_join(
               mro_to_structure(l.lost1, self.other_members),
               mro_to_structure(l.lost2, other.other_members), st)
       IN IF ~members.ok THEN Ret(TypeError, members.st)
          ELSE Ret(Instance(l.lcs, members.d, NoName), members.st)
  ELSE IF other.k = "Union" THEN join(other, self, st)
  ELSE IF other.k = "Function" THEN Ret(Object, st)
  ELSE Type_join(self, other, st)

Instance_meet(self, other, st) ==
  IF other.k = "Instance"
  THEN LET mro == merge_mros(<<self.mro, other.mro>>)
           members == dict_meet(self.other_members, other.other_members, st)
       IN IF ~mro.ok THEN Ret(TypeError, st)
          ELSE IF ~members.ok THEN Ret(TypeError, members.st)
          ELSE Ret(Instance(mro.mro, members.d, NoName), members.st)
  ELSE IF other.k = "Union" THEN meet(other, self, st)
  ELSE IF other.k = "Function" THEN Ret(Nothing, st)
  ELSE Type_meet(self, other, st)

ConstantType_join(self, other, st) ==
  IF other.k = "ConstantType"
  THEN ConstantType(self.values \cup other.values, Absent, st)
  ELSE join(self.value_type, other, st)

ConstantType_meet(self, other, st) ==
  IF other.k = "ConstantType"
  THEN IF self.values \cap other.values # {}
       THEN ConstantType(self.values \cap other.values, Absent, st)
       ELSE meet(self.value_type, other.value_type, st)
  ELSE meet(self.value_type, other, st)

Variable_join(self, other, st) == new_variable_supertype(st, other, self)

Variable_meet(self, other, st) == new_variable_subtype(st, other, self)

binop(which, self, other, st) ==
  CASE which = "join" /\ self.k = "Object" -> Object_join(self, other, st)
    [] which = "join" /\ self.k = "Nothing" -> Nothing_join(self, other, st)
    [] which = "join" /\ self.k = "Dynamic" -> Dynamic_join(self, other, st)
    [] which = "join" /\ self.k = "Union" -> Union_join(self, other, st)
    [] which = "join" /\ self.k = "Function" -> Function_join(self, other, st)
    [] which = "join" /\ self.k = "Instance" -> Instance_join(self, other, st)
    [] which = "join" /\ self.k = "ConstantType" ->
         ConstantType_join(self, other, st)
    [] which = "join" /\ self.k = "Variable" -> Variable_join(self, other, st)
    [] which = "meet" /\ self.k = "Object" -> Object_meet(self, other, st)
    [] which = "meet" /\ self.k = "Nothing" -> Nothing_meet(self, other, st)
    [] which = "meet" /\ self.k = "Dynamic" -> Dynamic_meet(self, other, st)
    [] which = "meet" /\ self.k = "Union" -> Union_meet(self, other, st)
    [] which = "meet" /\ self.k = "Function" -> Function_meet(self, other, st)
    [] which = "meet" /\ self.k = "Instance" -> Instance_meet(self, other, st)
    [] which = "meet" /\ self.k = "ConstantType" ->
         ConstantType_meet(self, other, st)
    [] which = "meet" /\ self.k = "Variable" -> Variable_meet(self, other, st)

----------------------------------------------------------------------------
(* Type.substitute, Type.remove_constants and Type.__contains__: a visit  *)
(* rebuilds a Function, an Instance or a Union from its visited children  *)
(* and does not descend into a ConstantType.  A mapping is a function     *)
(* whose domain is the set of its keys.                                   *)

EmptyMapping == [tp \in {} |-> tp]

(* A mutation: the mapping is applied in both directions. *)
SubstVisitor_visit_variable_swaps(tp, mapping) ==
  IF tp \in DOMAIN mapping THEN mapping[tp]
  ELSE IF \E key \in DOMAIN mapping : mapping[key] = tp
  THEN CHOOSE key \in DOMAIN mapping : mapping[key] = tp
  ELSE tp

SubstVisitor_visit_variable(tp, mapping) ==
  IF tp \in DOMAIN mapping THEN mapping[tp] ELSE tp

RECURSIVE Type_substitute(_, _)
Type_substitute(tp, mapping) ==
  CASE tp.k = "Variable" -> SubstVisitor_visit_variable(tp, mapping)
    [] tp.k = "Function" ->
         Function([i \in 1..Len(tp.argument_types) |->
                     Type_substitute(tp.argument_types[i], mapping)],
                  Type_substitute(tp.return_type, mapping))
    [] tp.k = "Instance" ->
         Instance(tp.mro,
                  [n \in Names |->
                     IF tp.other_members[n] = Absent THEN Absent
                     ELSE Type_substitute(tp.other_members[n], mapping)],
                  tp.name)
    [] tp.k = "Union" ->
         Union({Type_substitute(t, mapping) : t \in tp.subtypes})
    [] OTHER -> tp

RECURSIVE Type_remove_constants(_)
Type_remove_constants(tp) ==
  CASE tp.k = "ConstantType" -> tp.value_type
    [] tp.k = "Function" ->
         Function([i \in 1..Len(tp.argument_types) |->
                     Type_remove_constants(tp.argument_types[i])],
                  Type_remove_constants(tp.return_type))
    [] tp.k = "Instance" ->
         Instance(tp.mro,
                  [n \in Names |->
                     IF tp.other_members[n] = Absent THEN Absent
                     ELSE Type_remove_constants(tp.other_members[n])],
                  tp.name)
    [] tp.k = "Union" ->
         Union({Type_remove_constants(t) : t \in tp.subtypes})
    [] OTHER -> tp

RECURSIVE Type_contains(_, _)
Type_contains(self, other) ==
  \/ TypeEq(self, other)
  \/ CASE self.k = "Function" ->
            \/ \E i \in 1..Len(self.argument_types) :
                 Type_contains(self.argument_types[i], other)
            \/ Type_contains(self.return_type, other)
       [] self.k = "Instance" ->
            \E n \in Keys(self.other_members) :
              Type_contains(self.other_members[n], other)
       [] self.k = "Union" ->
            \E t \in self.subtypes : Type_contains(t, other)
       [] OTHER -> FALSE

Constraint_substitute(c, mapping) ==
  [tag |-> c.tag, left |-> Type_substitute(c.left, mapping),
   right |-> Type_substitute(c.right, mapping)]

Constraint_remove_constants(c) ==
  [tag |-> c.tag, left |-> Type_remove_constants(c.left),
   right |-> Type_remove_constants(c.right)]

Constraint_contains(c, ty) ==
  Type_contains(c.left, ty) \/ Type_contains(c.right, ty)

----------------------------------------------------------------------------
(* Sets of constraints.  A set holds one constraint per pair (left,       *)
(* right); the order in which the code walks a set is not fixed, so an    *)
(* operation that depends on it has every order's outcome.                *)

SameSides(c, d) == c.left = d.left /\ c.right = d.right

SetAdd(cs, c) == IF InConstraints(c, cs) THEN cs ELSE cs \cup {c}

SetDiscard(cs, c) == {d \in cs : ~SameSides(c, d)}

SetMinus(cs, ds) == {c \in cs : ~InConstraints(c, ds)}

SetUpdate(cs, ds) == cs \cup SetMinus(ds, cs)

SetsOf(cands) ==
  {new \in SUBSET cands :
     /\ \A c \in cands : InConstraints(c, new)
     /\ \A c, d \in new : SameSides(c, d) => c = d}

RECURSIVE Orders(_)
Orders(S) ==
  IF S = {} THEN {<<>>}
  ELSE UNION {{<<x>> \o seq : seq \in Orders(S \ {x})} : x \in S}

(* What an operation on the store gives: the store it leaves, whether it  *)
(* reports a change, and whether it raised.                               *)

Outcome(st, changed, raised) ==
  [st |-> st, changed |-> changed, raised |-> raised]

_complete_constraint(st, constraint) ==
  IF InConstraints(constraint, st.constraints)
  THEN [st EXCEPT !.constraints = SetDiscard(@, constraint),
                  !.completed_constraints = SetAdd(@, constraint)]
  ELSE st

_update_constraints(st, replacements, complete_constraints) ==
  LET orig_constraints == st.constraints
  IN {LET added_constraints == SetMinus(new_constraints, orig_constraints)
          removed_constraints == SetMinus(orig_constraints, new_constraints)
      IN Outcome([st EXCEPT
                    !.constraints = new_constraints,
                    !.completed_constraints =
                      IF complete_constraints
                      THEN SetUpdate(@, removed_constraints) ELSE @],
                 removed_constraints # {} \/ added_constraints # {}, FALSE) :
        new_constraints \in SetsOf(replacements)}

substitute(st, mapping) ==
  UNION {_update_constraints(
           [st EXCEPT !.completed_constraints = new_completed_constraints,
                      !.target_types =
                        {Type_substitute(tp, mapping) : tp \in @}],
           {Constraint_substitute(c, mapping) : c \in st.constraints}, TRUE) :
         new_completed_constraints \in
           SetsOf({Constraint_substitute(c, mapping) :
                     c \in st.completed_constraints})}

remove_constants(st) ==
  _update_constraints(
    st, {Constraint_remove_constants(c) : c \in st.constraints}, FALSE)

completely_remove_a_sub_a_constraints(st) ==
  [st EXCEPT !.completed_constraints =
               {constraint \in @ : ~TypeEq(constraint.left, constraint.right)}]

constraints_on_variable(st, var) ==
  {c \in st.constraints : Constraint_contains(c, var)}

----------------------------------------------------------------------------
(* The rewrites of the store.  Each gives the set of its outcomes.        *)

SetNeq(cs, ds) == SetMinus(cs, ds) # {} \/ SetMinus(ds, cs) # {}

RECURSIVE equality_subst(_, _, _, _)
equality_subst(constraints_list, i, st, subst) ==
  IF i > Len(constraints_list) THEN [st |-> st, subst |-> subst]
  ELSE LET constraint == constraints_list[i]
           left == constraint.left
           right == constraint.right
           updated == [l \in DOMAIN subst |->
                         Type_substitute(subst[l], left :> right)]
       IN equality_subst(constraints_list, i + 1,
                         _complete_constraint(st, constraint),
                         IF left \in DOMAIN updated THEN updated
                         ELSE (left :> right) @@ updated)

eliminate_equality_constrained_variables(st) ==
  LET equalities == {c \in st.constraints : c.tag = "EqualityConstraint"}
  IN UNION {{Outcome(o.st, equalities # {}, FALSE) :
               o \in substitute(f.st, f.subst)} :
            f \in {equality_subst(constraints_list, 1, st, EmptyMapping) :
                     constraints_list \in Orders(equalities)}}

eliminate_known_relations(st) ==
  _update_constraints(
    st,
    {c \in st.constraints : ~(/\ c.tag = "SubtypeConstraint"
                              /\ ~contains_variable(c.left)
                              /\ ~contains_variable(c.right)
                              /\ issubtypeof(c.left, c.right))},
    TRUE)

Bound(st, bound, raised) == [st |-> st, bound |-> bound, raised |-> raised]

RECURSIVE meet_super_bound(_, _, _, _, _)
meet_super_bound(var, orig_constraints, i, st, super_bound) ==
  IF i > Len(orig_constraints) THEN {Bound(st, super_bound, FALSE)}
  ELSE LET constraint == orig_constraints[i]
       IN IF /\ TypeEq(constraint.left, var)
             /\ constraint.tag = "SubtypeConstraint"
             /\ constraint.right.k # "Variable"
          THEN UNION {IF r.ty = TypeError
                      THEN {Bound(r.st, super_bound, TRUE)}
                      ELSE meet_super_bound(
                             var, orig_constraints, i + 1,
                             _complete_constraint(r.st, constraint), r.ty) :
                      r \in {meet(super_bound, constraint.right, st)}}
          ELSE meet_super_bound(var, orig_constraints, i + 1, st, super_bound)

RECURSIVE meet_super_bounds_of(_, _, _, _)
meet_super_bounds_of(orig_variables, j, orig_constraints, st) ==
  IF j > Len(orig_variables) THEN {Outcome(st, FALSE, FALSE)}
  ELSE UNION {IF b.raised THEN {Outcome(b.st, FALSE, TRUE)}
              ELSE meet_super_bounds_of(
                     orig_variables, j + 1, orig_constraints,
                     IF b.bound.k # "Object"
                     THEN constrain_subtype(b.st, orig_variables[j], b.bound)
                     ELSE b.st) :
              b \in meet_super_bound(orig_variables[j], orig_constraints, 1,
                                     st, Object)}

meet_super_bounds(st) ==
  LET super_bounds == {c \in st.constraints :
                         /\ c.tag = "SubtypeConstraint"
                         /\ c.left \in st.variables
                         /\ c.right.k # "Variable"}
      bounded == {c.left : c \in super_bounds}
  IN {Outcome(o.st, SetNeq(st.constraints, o.st.constraints), o.raised) :
        o \in UNION {meet_super_bounds_of(orig_variables, 1,
                                          orig_constraints, st) :
                       orig_variables \in Orders(bounded),
                       orig_constraints \in Orders(super_bounds)}}

RECURSIVE join_sub_bound(_, _, _, _, _)
join_sub_bound(var, orig_constraints, i, st, sub_bound) ==
  IF i > Len(orig_constraints) THEN {Bound(st, sub_bound, FALSE)}
  ELSE LET constraint == orig_constraints[i]
       IN IF /\ TypeEq(constraint.right, var)
             /\ constraint.tag = "SubtypeConstraint"
             /\ constraint.left.k # "Variable"
          THEN UNION {IF r.ty = TypeError
                      THEN {Bound(r.st, sub_bound, TRUE)}
                      ELSE join_sub_bound(
                             var, orig_constraints, i + 1,
                             [r.st EXCEPT !.constraints =
                                            SetDiscard(@, constraint)],
                             r.ty) :
                      r \in {join(sub_bound, constraint.left, st)}}
          ELSE join_sub_bound(var, orig_constraints, i + 1, st, sub_bound)

RECURSIVE join_sub_bounds_of(_, _, _, _)
join_sub_bounds_of(orig_variables, j, orig_constraints, st) ==
  IF j > Len(orig_variables) THEN {Outcome(st, FALSE, FALSE)}
  ELSE UNION {IF b.raised THEN {Outcome(b.st, FALSE, TRUE)}
              ELSE join_sub_bounds_of(
                     orig_variables, j + 1, orig_constraints,
                     IF b.bound.k # "Nothing"
                     THEN constrain_supertype(b.st, orig_variables[j],
                                              b.bound)
                     ELSE b.st) :
              b \in join_sub_bound(orig_variables[j], orig_constraints, 1,
                                   st, Nothing)}

join_sub_bounds(st) ==
  LET sub_bounds == {c \in st.constraints :
                       /\ c.tag = "SubtypeConstraint"
                       /\ c.right \in st.variables
                       /\ c.left.k # "Variable"}
      bounded == {c.right : c \in sub_bounds}
  IN {Outcome(o.st, SetNeq(st.constraints, o.st.constraints), o.raised) :
        o \in UNION {join_sub_bounds_of(orig_variables, 1,
                                        orig_constraints, st) :
                       orig_variables \in Orders(bounded),
                       orig_constraints \in Orders(sub_bounds)}}

super_bounds_on(st, var) ==
  {c \in st.constraints : TypeEq(c.left, var) /\ c.tag = "SubtypeConstraint"}

is_trivial_bound_nonempty(constraints_on_var) ==
  Cardinality(constraints_on_var) >= 1

is_trivial_bound(constraints_on_var) == Cardinality(constraints_on_var) = 1

(* One round of the loop over the variables: the stores it can leave and  *)
(* whether it changed one.                                                *)
trivially_super_bounded_round(st, var, changed) ==
  LET constraints_on_var == super_bounds_on(st, var)
  IN IF is_trivial_bound(constraints_on_var)
     THEN UNION {{Outcome(o.st, TRUE, FALSE) :
                    o \in substitute(_complete_constraint(st, c),
                                     var :> c.right)} :
                 c \in constraints_on_var}
     ELSE {Outcome(st, changed, FALSE)}

RECURSIVE trivially_super_bounded(_, _, _, _)
trivially_super_bounded(variables_list, j, st, changed) ==
  IF j > Len(variables_list) THEN {Outcome(st, changed, FALSE)}
  ELSE UNION {trivially_super_bounded(variables_list, j + 1, o.st, o.changed) :
                o \in trivially_super_bounded_round(st, variables_list[j],
                                                    changed)}

eliminate_trivially_super_bounded_variables(st) ==
  UNION {trivially_super_bounded(variables_list, 1, st, FALSE) :
           variables_list \in Orders(st.variables)}

RECURSIVE trivially_constrained_unused(_, _, _, _)
trivially_constrained_unused(variables_list, j, st, changed) ==
  IF j > Len(variables_list) THEN {Outcome(st, changed, FALSE)}
  ELSE LET var == variables_list[j]
           constraints_on_var == constraints_on_variable(st, var)
       IN IF /\ Cardinality(constraints_on_var) = 1
             /\ \A c \in constraints_on_var :
                  TypeEq(c.left, var) \/ TypeEq(c.right, var)
          THEN UNION {trivially_constrained_unused(
                        variables_list, j + 1, _complete_constraint(st, c),
                        TRUE) :
                      c \in constraints_on_var}
          ELSE trivially_constrained_unused(variables_list, j + 1, st,
                                            changed)

eliminate_trivially_constrained_unused_variables(st) ==
  UNION {trivially_constrained_unused(variables_list, 1, st, FALSE) :
           variables_list \in Orders(st.variables)}

(* eliminate_variables_by_transitivity.  The code sorts the constraints   *)
(* on var into those with var as left side and those with var as right    *)
(* side, and gives both lists up when one constraint is neither.          *)

is_left_constraint(constraint, var) ==
  TypeEq(constraint.left, var) /\ ~Type_contains(constraint.right, var)

is_right_constraint(constraint, var) ==
  /\ ~is_left_constraint(constraint, var)
  /\ TypeEq(constraint.right, var)
  /\ ~Type_contains(constraint.left, var)

left_constraints(st, var) ==
  LET constraints_on_var == constraints_on_variable(st, var)
  IN IF \A c \in constraints_on_var :
          is_left_constraint(c, var) \/ is_right_constraint(c, var)
     THEN {c \in constraints_on_var : is_left_constraint(c, var)}
     ELSE {}

right_constraints(st, var) ==
  LET constraints_on_var == constraints_on_variable(st, var)
  IN IF \A c \in constraints_on_var :
          is_left_constraint(c, var) \/ is_right_constraint(c, var)
     THEN {c \in constraints_on_var : is_right_constraint(c, var)}
     ELSE {}

RECURSIVE complete_each(_, _, _)
complete_each(st, row, j) ==
  IF j > Len(row) THEN st
  ELSE complete_each(_complete_constraint(st, row[j]), row, j + 1)

RECURSIVE constrain_each(_, _, _, _)
constrain_each(st, r, lefts, j) ==
  IF j > Len(lefts) THEN st
  ELSE constrain_each(constrain_subtype(st, r.left, lefts[j].right), r, lefts,
                      j + 1)

RECURSIVE bridge_each(_, _, _, _)
bridge_each(st, rights, lefts, i) ==
  IF i > Len(rights) THEN st
  ELSE bridge_each(constrain_each(_complete_constraint(st, rights[i]),
                                  rights[i], lefts, 1),
                   rights, lefts, i + 1)

(* One round of the loop over the variables. *)
by_transitivity_round(st, var, changed) ==
  IF left_constraints(st, var) = {} \/ right_constraints(st, var) = {}
  THEN {Outcome(st, changed, FALSE)}
  ELSE {Outcome(bridge_each(complete_each(st, lefts, 1), rights, lefts, 1),
                TRUE, FALSE) :
          lefts \in Orders(left_constraints(st, var)),
          rights \in Orders(right_constraints(st, var))}

RECURSIVE by_transitivity(_, _, _, _)
by_transitivity(variables_list, j, st, changed) ==
  IF j > Len(variables_list) THEN {Outcome(st, changed, FALSE)}
  ELSE UNION {by_transitivity(variables_list, j + 1, o.st, o.changed) :
                o \in by_transitivity_round(st, variables_list[j], changed)}

eliminate_variables_by_transitivity(st) ==
  UNION {by_transitivity(variables_list, 1, st, FALSE) :
           variables_list \in Orders(st.variables)}

complete_matching(st, left, right) ==
  LET matching == {c \in st.constraints :
                     TypeEq(c.left, left) /\ TypeEq(c.right, right)}
  IN [st EXCEPT !.constraints = @ \ matching,
                !.completed_constraints = SetUpdate(@, matching)]

RECURSIVE unify_subtype_constraint(_, _, _)

RECURSIVE unify_arguments(_, _, _, _)
unify_arguments(st, left, right, i) ==
  IF i > Len(left.argument_types) THEN st
  ELSE unify_arguments(
         unify_subtype_constraint(st, right.argument_types[i],
                                  left.argument_types[i]),
         left, right, i + 1)

RECURSIVE unify_members(_, _, _, _)
unify_members(st, other_members, super_dict, i) ==
  IF i > Len(NameOrder) THEN st
  ELSE LET name == NameOrder[i]
       IN unify_members(
            IF other_members[name] # Absent /\ super_dict[name] # Absent
            THEN unify_subtype_constraint(st, other_members[name],
                                          super_dict[name])
            ELSE st,
            other_members, super_dict, i + 1)

unify_subtype_constraint(st, left, right) ==
  IF /\ left.k = "Function" /\ right.k = "Function"
     /\ Len(left.argument_types) = Len(right.argument_types)
  THEN complete_matching(
         unify_subtype_constraint(unify_arguments(st, left, right, 1),
                                  left.return_type, right.return_type),
         left, right)
  ELSE IF /\ left.k = "Instance" /\ right.k = "Instance"
          /\ is_subsequence(right.mro, left.mro)
  THEN complete_matching(
         unify_members(st, left.other_members, get_structure(right), 1),
         left, right)
  ELSE constrain_subtype(st, left, right)

RECURSIVE unify_each(_, _, _)
unify_each(orig, i, st) ==
  IF i > Len(orig) THEN st
  ELSE unify_each(orig, i + 1,
                  unify_subtype_constraint(st, orig[i].left, orig[i].right))

unify_subtype_constraints(st) ==
  LET subtypes == {c \in st.constraints : c.tag = "SubtypeConstraint"}
  IN {Outcome(new, SetNeq(st.constraints, new.constraints), FALSE) :
        new \in {unify_each(orig, 1, st) : orig \in Orders(subtypes)}}

(* simplify: the rewrites in the order of the code, again and again until *)
(* a round adds nothing and reports no change.                            *)

MaxRounds == 4

rewrite(name, st) ==
  CASE name = "eliminate_equality_constrained_variables" ->
         eliminate_equality_constrained_variables(st)
    [] name = "eliminate_known_relations" -> eliminate_known_relations(st)
    [] name = "meet_super_bounds" -> meet_super_bounds(st)
    [] name = "join_sub_bounds" -> join_sub_bounds(st)
    [] name = "eliminate_trivially_super_bounded_variables" ->
         eliminate_trivially_super_bounded_variables(st)
    [] name = "eliminate_trivially_constrained_unused_variables" ->
         eliminate_trivially_constrained_unused_variables(st)
    [] name = "unify_subtype_constraints" -> unify_subtype_constraints(st)

RECURSIVE rewrites(_, _, _)
rewrites(names, i, outcomes) ==
  IF i > Len(names) THEN outcomes
  ELSE rewrites(names, i + 1,
                UNION {IF o.raised THEN {o}
                       ELSE {Outcome(n.st, o.changed \/ n.changed, n.raised) :
                               n \in rewrite(names[i], o.st)} :
                       o \in outcomes})

simplify_round(st) ==
  rewrites(<<"eliminate_equality_constrained_variables",
             "eliminate_known_relations",
             "meet_super_bounds",
             "join_sub_bounds",
             "eliminate_trivially_super_bounded_variables",
             "eliminate_trivially_constrained_unused_variables",
             "unify_subtype_constraints">>,
           1, {Outcome(st, FALSE, FALSE)})

Simplified(st, status) == [st |-> st, status |-> status]

RECURSIVE simplify_loop(_, _)
simplify_loop(st, rounds) ==
  IF rounds = 0 THEN {Simplified(st, "running")}
  ELSE UNION {IF o.raised THEN {Simplified(o.st, "TypeError")}
              ELSE IF SetMinus(o.st.constraints, st.constraints) # {}
                        \/ o.changed
              THEN simplify_loop(o.st, rounds - 1)
              ELSE {Simplified(o.st, "done")} :
              o \in simplify_round(st)}

simplify(st) ==
  UNION {simplify_loop(completely_remove_a_sub_a_constraints(o.st),
                       MaxRounds) :
           o \in remove_constants(st)}

----------------------------------------------------------------------------
(* The types the operations are applied to. *)

MaxArity == 1

MaxUnionSize == 2

Dict1(name, ty) == [EmptyDict EXCEPT ![name] = ty]

EmptyStore ==
  [constraints |-> {}, completed_constraints |-> {}, target_types |-> {},
   variables |-> {}, next_identity |-> 1]

Instances ==
  {ty_a, ty_b, ty_c, ty_d,
   Instance(<<"B">>, EmptyDict, NoName),
   Instance(<<>>, EmptyDict, NoName),
   Instance(<<>>, Dict1("a", ty_a), NoName),
   Instance(<<"B">>, Dict1("a", ty_a), NoName),
   Instance(<<"A">>, Dict1("x", Object), NoName),
   Instance(<<"A", "B">>, EmptyDict, NoName),
   Instance(<<"B", "A">>, EmptyDict, NoName)}

FunctionParts == {Object, Nothing, ty_a, ty_b, ty_c}

SeqsUpTo(S, n) == UNION {[1..m -> S] : m \in 0..n}

Functions ==
  {Function(a, r) : a \in SeqsUpTo(FunctionParts, MaxArity),
                    r \in FunctionParts}

UnionParts ==
  {ty_a, ty_b, ty_c, ty_d, Instance(<<"B">>, EmptyDict, NoName),
   Function(<<ty_a>>, ty_b)}

Unions ==
  {Union(S) : S \in {S \in SUBSET UnionParts :
                       Cardinality(S) >= 2 /\ Cardinality(S) <= MaxUnionSize}}

Constants ==
  {ConstantType(vs, Absent, EmptyStore).ty : vs \in {{1}, {2}, {1, 2}, {3}}}
    \cup {ConstantType({1}, Object, EmptyStore).ty}

ClosedTypes ==
  {Object, Nothing, Dynamic} \cup Instances \cup Functions \cup Unions
    \cup Constants

----------------------------------------------------------------------------
(* The store and the call being made. *)

NoResult == [k |-> "None"]

None == [k |-> "None"]

NoMRO == _classes = None /\ local_seqs = <<>> /\ local_res = <<>>

StoreIs(st) ==
  /\ constraints = st.constraints
  /\ completed_constraints = st.completed_constraints
  /\ target_types = st.target_types
  /\ variables = st.variables
  /\ next_identity = st.next_identity

Store ==
  [constraints |-> constraints,
   completed_constraints |-> completed_constraints,
   target_types |-> target_types, variables |-> variables,
   next_identity |-> next_identity]

SetStore(st) ==
  /\ constraints' = st.constraints
  /\ completed_constraints' = st.completed_constraints
  /\ target_types' = st.target_types
  /\ variables' = st.variables
  /\ next_identity' = st.next_identity

(* Type.issubtypeof and Type.issupertypeof applied to closed types. *)

Call_issubtypeof ==
  /\ op = "init"
  /\ op' = "issubtypeof"
  /\ ret' = issubtypeof(args[1], args[2])
  /\ UNCHANGED <<args, store_vars, mro_vars>>

Call_issupertypeof ==
  /\ op = "init"
  /\ op' = "issupertypeof"
  /\ ret' = issupertypeof(args[1], args[2])
  /\ UNCHANGED <<args, store_vars, mro_vars>>

SubtypeTypes ==
  {Object, Nothing, Dynamic, ty_a, ty_b, ty_c,
   Instance(<<"B">>, EmptyDict, NoName),
   Instance(<<>>, EmptyDict, NoName),
   Instance(<<>>, Dict1("a", ty_a), NoName),
   Instance(<<"B">>, Dict1("a", ty_a), NoName),
   Instance(<<"A">>, Dict1("x", Object), NoName),
   Function(<<>>, ty_a), Function(<<ty_a>>, ty_c), Function(<<ty_a>>, ty_b),
   Function(<<ty_b>>, ty_a), Function(<<Object>>, ty_a),
   Union({ty_a, ty_b}), Union({ty_c, Instance(<<"B">>, EmptyDict, NoName)}),
   ConstantType({1}, Absent, EmptyStore).ty,
   ConstantType({2}, Absent, EmptyStore).ty,
   ConstantType({3}, Absent, EmptyStore).ty}

SubtypeInit ==
  /\ StoreIs(EmptyStore)
  /\ op = "init"
  /\ ret = NoResult
  /\ NoMRO
  /\ args \in SubtypeTypes \X SubtypeTypes \X SubtypeTypes

SubtypeNext == Call_issubtypeof \/ Call_issupertypeof

SubtypeSpec == SubtypeInit /\ [][SubtypeNext]_vars

(* Function.issubtypeof applied to two functions. *)

FunctionArgs ==
  {Object, Nothing, Dynamic, ty_a, ty_b, ty_c,
   Instance(<<"B">>, Dict1("a", ty_a), NoName),
   Union({ty_a, ty_c}), Function(<<ty_b>>, ty_c)}

FunctionTypes ==
  {Function(a, r) : a \in SeqsUpTo(FunctionArgs, MaxArity),
                    r \in FunctionArgs}

FunctionInit ==
  /\ StoreIs(EmptyStore)
  /\ op = "init"
  /\ ret = NoResult
  /\ NoMRO
  /\ args \in FunctionTypes \X FunctionTypes

FunctionSpec == FunctionInit /\ [][SubtypeNext]_vars

(* join and meet applied to two types, with the store they act on. *)

Call_join ==
  /\ op = "init"
  /\ op' = "join"
  /\ LET r == join(args[1], args[2], Store)
     IN ret' = r.ty /\ SetStore(r.st)
  /\ UNCHANGED <<args, mro_vars>>

Call_meet ==
  /\ op = "init"
  /\ op' = "meet"
  /\ LET r == meet(args[1], args[2], Store)
     IN ret' = r.ty /\ SetStore(r.st)
  /\ UNCHANGED <<args, mro_vars>>

LatticeInit ==
  /\ StoreIs(EmptyStore)
  /\ op = "init"
  /\ ret = NoResult
  /\ NoMRO
  /\ args \in ClosedTypes \X ClosedTypes

LatticeNext == Call_join \/ Call_meet

LatticeSpec == LatticeInit /\ [][LatticeNext]_vars

(* join and meet of a type, variables included, with Top and Bottom. *)

VariableStore(cs) ==
  [EmptyStore EXCEPT !.constraints = cs, !.variables = {Variable(1)},
                     !.next_identity = 2]

IdentityStores ==
  {VariableStore({}),
   VariableStore({SubtypeConstraint(Nothing, Variable(1))}),
   VariableStore({SubtypeConstraint(Variable(1), Nothing)}),
   VariableStore({SubtypeConstraint(Object, Variable(1))}),
   VariableStore({SubtypeConstraint(Variable(1), Object)})}

IdentityTypes ==
  ClosedTypes
    \cup {Variable(1), Function(<<Variable(1)>>, ty_a),
          Instance(<<"A">>, Dict1("x", Variable(1)), NoName),
          ConstantType({1}, Dynamic, EmptyStore).ty,
          ConstantType({3}, Variable(1), EmptyStore).ty}

IdentityInit ==
  /\ \E st \in IdentityStores : StoreIs(st)
  /\ op = "init"
  /\ ret = NoResult
  /\ NoMRO
  /\ args \in IdentityTypes \X {Object, Nothing}

IdentitySpec == IdentityInit /\ [][LatticeNext]_vars

(* The Union constructor applied to a collection of types. *)

Call_Union ==
  /\ op = "init"
  /\ op' = "Union"
  /\ ret' = Union(args[1])
  /\ UNCHANGED <<args, store_vars, mro_vars>>

UnionInputs == UnionParts \cup Unions \cup {Nothing}

UnionInit ==
  /\ StoreIs(EmptyStore)
  /\ op = "init"
  /\ ret = NoResult
  /\ NoMRO
  /\ \E S \in SUBSET UnionInputs :
       Cardinality(S) <= MaxUnionSize /\ args = <<S>>

UnionSpec == UnionInit /\ [][Call_Union]_vars

(* simplify applied to a store of two variables and a few constraints. *)

MaxConstraints == 2

SimplifyConstraints ==
  {SubtypeConstraint(Variable(1), ty_a),
   SubtypeConstraint(Variable(1), ty_b),
   SubtypeConstraint(ty_b, Variable(1)),
   SubtypeConstraint(ty_c, Variable(1)),
   SubtypeConstraint(Variable(1), Variable(2)),
   SubtypeConstraint(Variable(2), ty_a),
   EqualityConstraint(Variable(1), ty_a),
   EqualityConstraint(Variable(2), Variable(1)),
   EqualityConstraint(ty_a, Variable(1)),
   SubtypeConstraint(Function(<<Variable(1)>>, ty_a),
                     Function(<<ty_b>>, Variable(2))),
   SubtypeConstraint(Variable(1), Function(<<ty_a>>, ty_b)),
   SubtypeConstraint(ConstantType({1}, Absent, EmptyStore).ty, Variable(1)),
   SubtypeConstraint(Instance(<<"A">>, Dict1("x", Variable(1)), NoName),
                     Instance(<<"A">>, Dict1("x", ty_b), NoName)),
   SubtypeConstraint(Dynamic, Variable(1)),
   SubtypeConstraint(ty_a, ty_b),
   SubtypeConstraint(ty_c, ty_b),
   SubtypeConstraint(Variable(1), Union({ty_a, ty_b})),
   SubtypeConstraint(Variable(1), Instance(<<"A", "B">>, EmptyDict, NoName)),
   SubtypeConstraint(Variable(1), Instance(<<"B", "A">>, EmptyDict, NoName))}

SimplifyStores ==
  {[EmptyStore EXCEPT !.constraints = cs, !.target_types = tt,
                      !.variables = {Variable(1), Variable(2)},
                      !.next_identity = 3] :
     cs \in {cs \in SUBSET SimplifyConstraints :
               /\ Cardinality(cs) <= MaxConstraints
               /\ \A c, d \in cs : SameSides(c, d) => c = d},
     tt \in {{}, {Variable(1)}}}

Call_simplify ==
  /\ op = "init"
  /\ op' = "simplify"
  /\ \E r \in simplify(Store) : ret' = r.status /\ SetStore(r.st)
  /\ UNCHANGED <<args, mro_vars>>

SimplifyInit ==
  /\ \E st \in SimplifyStores : StoreIs(st)
  /\ op = "init"
  /\ ret = NoResult
  /\ NoMRO
  /\ args = <<>>

SimplifySpec == SimplifyInit /\ [][Call_simplify]_vars

(* One rewrite of the store applied to a store; ret is "TypeError" where  *)
(* the rewrite raised it, and otherwise what the rewrite returned.         *)

Returned(o) ==
  IF o.raised THEN "TypeError" ELSE IF o.changed THEN "True" ELSE "False"

RewriteNames ==
  {"eliminate_equality_constrained_variables", "eliminate_known_relations",
   "meet_super_bounds", "join_sub_bounds",
   "eliminate_trivially_super_bounded_variables",
   "eliminate_trivially_constrained_unused_variables",
   "unify_subtype_constraints"}

Call_rewrite(name) ==
  /\ op = "init"
  /\ op' = name
  /\ \E o \in rewrite(name, Store) : ret' = Returned(o) /\ SetStore(o.st)
  /\ UNCHANGED <<args, mro_vars>>

RewriteNext == \E name \in RewriteNames : Call_rewrite(name)

RewriteSpec == SimplifyInit /\ [][RewriteNext]_vars

(* SatEncoder.Generate and DatalogEncoder.generate, as far as the store   *)
(* goes: each starts with two rewrites of the store it is given, and what  *)
(* follows (the search for all types, the SAT variables or datalog rules)  *)
(* reads the store and writes the encoder's own fields only.               *)

SatEncoder_Generate_readonly(st) == {Outcome(st, FALSE, FALSE)}

SatEncoder_Generate(st) ==
  UNION {remove_constants(o.st) :
           o \in eliminate_equality_constrained_variables(st)}

DatalogEncoder_generate(st) ==
  UNION {eliminate_equality_constrained_variables(o.st) :
           o \in remove_constants(st)}

Call_SatEncoder_Generate ==
  /\ op = "init"
  /\ op' = "SatEncoder.Generate"
  /\ \E o \in SatEncoder_Generate(Store) : SetStore(o.st)
  /\ ret' = None
  /\ UNCHANGED <<args, mro_vars>>

Call_DatalogEncoder_generate ==
  /\ op = "init"
  /\ op' = "DatalogEncoder.generate"
  /\ \E o \in DatalogEncoder_generate(Store) : SetStore(o.st)
  /\ ret' = None
  /\ UNCHANGED <<args, mro_vars>>

EncoderConstraints ==
  {EqualityConstraint(Variable(1), ty_a),
   EqualityConstraint(Variable(2), Variable(1)),
   EqualityConstraint(ty_a, Variable(1)),
   EqualityConstraint(Variable(1), ConstantType({1}, Absent, EmptyStore).ty),
   SubtypeConstraint(Variable(1), ty_b),
   SubtypeConstraint(Variable(1), Variable(2)),
   SubtypeConstraint(ty_c, ty_b),
   SubtypeConstraint(ConstantType({1}, Absent, EmptyStore).ty, Variable(1)),
   SubtypeConstraint(
     Variable(2),
     Function(<<ConstantType({2}, Absent, EmptyStore).ty>>, Variable(1))),
   SubtypeConstraint(
     Variable(1), Union({ConstantType({3}, Absent, EmptyStore).ty, ty_b})),
   SubtypeConstraint(
     Instance(<<"A">>, Dict1("x", ConstantType({1}, Absent, EmptyStore).ty),
              NoName),
     Variable(2))}

EncoderStores ==
  {[EmptyStore EXCEPT !.constraints = cs, !.completed_constraints = cc,
                      !.target_types = tt,
                      !.variables = {Variable(1), Variable(2)},
                      !.next_identity = 3] :
     cs \in {cs \in SUBSET EncoderConstraints :
               /\ Cardinality(cs) <= MaxConstraints
               /\ \A c, d \in cs : SameSides(c, d) => c = d},
     cc \in {{}, {SubtypeConstraint(Variable(1), ty_c)}},
     tt \in {{}, {Variable(1)}, {ConstantType({1}, Absent, EmptyStore).ty}}}

EncoderInit ==
  /\ \E st \in EncoderStores : StoreIs(st)
  /\ op = "init"
  /\ ret = NoResult
  /\ NoMRO
  /\ args = <<>>

(* remove_constants applied to the same stores. *)

Call_remove_constants ==
  /\ op = "init"
  /\ op' = "remove_constants"
  /\ \E o \in remove_constants(Store) : ret' = Returned(o) /\ SetStore(o.st)
  /\ UNCHANGED <<args, mro_vars>>

RemoveConstantsSpec == EncoderInit /\ [][Call_remove_constants]_vars

EncoderNext == Call_SatEncoder_Generate \/ Call_DatalogEncoder_generate

EncoderSpec == EncoderInit /\ [][EncoderNext]_vars

(* The operations the interpreter calls on the store while it emits       *)
(* constraints, applied to two types.                                      *)

Call_constrain_subtype ==
  /\ op = "init"
  /\ op' = "constrain_subtype"
  /\ SetStore(constrain_subtype(Store, args[1], args[2]))
  /\ ret' = None
  /\ UNCHANGED <<args, mro_vars>>

Call_constrain_equal ==
  /\ op = "init"
  /\ op' = "constrain_equal"
  /\ SetStore(constrain_equal(Store, args[1], args[2]))
  /\ ret' = None
  /\ UNCHANGED <<args, mro_vars>>

Call_new_variable_supertype ==
  /\ op = "init"
  /\ op' = "new_variable_supertype"
  /\ LET r == new_variable_supertype(Store, args[1], args[2])
     IN ret' = r.ty /\ SetStore(r.st)
  /\ UNCHANGED <<args, mro_vars>>

Call_new_variable_subtype ==
  /\ op = "init"
  /\ op' = "new_variable_subtype"
  /\ LET r == new_variable_subtype(Store, args[1], args[2])
     IN ret' = r.ty /\ SetStore(r.st)
  /\ UNCHANGED <<args, mro_vars>>

EmissionTypes ==
  {Object, Nothing, Dynamic, ty_a, ty_b, Instance(<<"B">>, EmptyDict, NoName),
   Function(<<ty_a>>, ty_b), Function(<<Variable(1)>>, ty_a),
   ConstantType({1}, Absent, EmptyStore).ty, Variable(1), Variable(2)}

EmissionStores ==
  {[EmptyStore EXCEPT !.constraints = cs,
                      !.completed_constraints =
                        {SubtypeConstraint(Variable(2), ty_c)},
                      !.target_types = {Variable(1)},
                      !.variables = {Variable(1), Variable(2)},
                      !.next_identity = 3] :
     cs \in {{},
             {SubtypeConstraint(Variable(1), ty_a)},
             {EqualityConstraint(Variable(1), ty_a)},
             {SubtypeConstraint(ty_a, Variable(1))},
             {SubtypeConstraint(Variable(1), Variable(2)),
              SubtypeConstraint(Variable(2), Variable(1))},
             {SubtypeConstraint(Variable(1), ty_b),
              EqualityConstraint(ty_b, Variable(2))}}}

EmissionInit ==
  /\ \E st \in EmissionStores : StoreIs(st)
  /\ op = "init"
  /\ ret = NoResult
  /\ NoMRO
  /\ args \in EmissionTypes \X EmissionTypes

EmissionNext ==
  \/ Call_constrain_subtype
  \/ Call_constrain_equal
  \/ Call_new_variable_supertype
  \/ Call_new_variable_subtype

EmissionSpec == EmissionInit /\ [][EmissionNext]_vars

(* One MRO object.  _classes is None until the classes are set; a list   *)
(* or tuple of classes is a record holding the sequence of their names.    *)

MaxMroLen == 2

ClassNames == {"A", "B", "C"}

ValueError == [k |-> "ValueError"]

List(items) == [k |-> "list", items |-> items]

Tuple(items) == [k |-> "tuple", items |-> items]

tuple(iterable) == Tuple(iterable.items)

ClassLists == {List(items) : items \in SeqsUpTo(ClassNames, MaxMroLen)}

MRO_init(classes) == IF classes # None THEN tuple(classes) ELSE None

MRO_classes(self_classes) ==
  IF self_classes # None THEN self_classes ELSE ValueError

MRO_classes_setter_overwrite(self_classes, classes) ==
  [_classes |-> tuple(classes), ret |-> None]

MRO_classes_setter(self_classes, classes) ==
  IF self_classes = None THEN [_classes |-> tuple(classes), ret |-> None]
  ELSE [_classes |-> self_classes, ret |-> ValueError]

Call_MRO ==
  /\ op = "init"
  /\ op' = "MRO"
  /\ \E classes \in ClassLists \cup {None} :
       args' = <<classes>> /\ _classes' = MRO_init(classes)
  /\ ret' = None
  /\ UNCHANGED <<store_vars, local_seqs, local_res>>

Call_MRO_classes ==
  /\ op # "init"
  /\ op' = "classes"
  /\ args' = <<>>
  /\ ret' = MRO_classes(_classes)
  /\ UNCHANGED <<store_vars, mro_vars>>

Call_MRO_classes_setter ==
  /\ op # "init"
  /\ op' = "classes.setter"
  /\ \E classes \in ClassLists :
       LET r == MRO_classes_setter(_classes, classes)
       IN args' = <<classes>> /\ _classes' = r._classes /\ ret' = r.ret
  /\ UNCHANGED <<store_vars, local_seqs, local_res>>

MROInit ==
  /\ StoreIs(EmptyStore)
  /\ op = "init"
  /\ ret = NoResult
  /\ NoMRO
  /\ args = <<>>

MRONext == Call_MRO \/ Call_MRO_classes \/ Call_MRO_classes_setter

MROSpec == MROInit /\ [][MRONext]_vars

(* One call of merge_mros, one action per iteration of its loop.  The    *)
(* call is at the top of the loop while op = "merge_mros".                 *)

MaxSeqs == 2

MergeInputs == SeqsUpTo(SeqsUpTo(ClassNames, MaxMroLen), MaxSeqs)

merge_nonemptyseqs(seqs) == SelectSeq(seqs, NonEmpty)

merge_nothead_none(nonemptyseqs, cand) == {}

merge_nothead(nonemptyseqs, cand) ==
  {i \in 1..Len(nonemptyseqs) : InSeq(cand, Tail(nonemptyseqs[i]))}

(* The sequences whose head passes the test; the for loop stops at the    *)
(* first of them.                                                        *)
merge_accepted(nonemptyseqs) ==
  {k \in 1..Len(nonemptyseqs) :
     merge_nothead(nonemptyseqs, nonemptyseqs[k][1]) = {}}

merge_cand(nonemptyseqs) ==
  LET found == merge_accepted(nonemptyseqs)
  IN nonemptyseqs[CHOOSE k \in found : \A l \in found : k <= l][1]

merge_remove(seqs, cand) ==
  [i \in 1..Len(seqs) |->
     IF seqs[i] # <<>> /\ seqs[i][1] = cand THEN Tail(seqs[i]) ELSE seqs[i]]

Call_merge_mros ==
  /\ op = "init"
  /\ op' = "merge_mros"
  /\ local_seqs' = args[1]
  /\ local_res' = <<>>
  /\ ret' = None
  /\ UNCHANGED <<args, store_vars, _classes>>

merge_mros_return ==
  /\ op = "merge_mros"
  /\ merge_nonemptyseqs(local_seqs) = <<>>
  /\ op' = "merge_mros.return"
  /\ ret' = MRO_init(List(local_res))
  /\ UNCHANGED <<args, store_vars, mro_vars>>

merge_mros_raise ==
  /\ op = "merge_mros"
  /\ merge_nonemptyseqs(local_seqs) # <<>>
  /\ merge_accepted(merge_nonemptyseqs(local_seqs)) = {}
  /\ op' = "merge_mros.raise"
  /\ ret' = TypeError
  /\ UNCHANGED <<args, store_vars, mro_vars>>

merge_mros_append ==
  /\ op = "merge_mros"
  /\ merge_nonemptyseqs(local_seqs) # <<>>
  /\ merge_accepted(merge_nonemptyseqs(local_seqs)) # {}
  /\ LET cand == merge_cand(merge_nonemptyseqs(local_seqs))
     IN /\ local_res' = Append(local_res, cand)
        /\ local_seqs' = merge_remove(local_seqs, cand)
  /\ UNCHANGED <<op, args, ret, store_vars, _classes>>

MergeInit ==
  /\ StoreIs(EmptyStore)
  /\ op = "init"
  /\ ret = NoResult
  /\ NoMRO
  /\ \E seqs \in MergeInputs : args = <<seqs>>

MergeNext ==
  \/ Call_merge_mros
  \/ merge_mros_return
  \/ merge_mros_raise
  \/ merge_mros_append

MergeSpec == MergeInit /\ [][MergeNext]_vars /\ WF_vars(MergeNext)

(* Type.substitute applied to a type, and again to what it returned. *)

SubstTypes ==
  {Variable(1), Variable(2), ty_a, Object,
   Function(<<Variable(1)>>, Variable(2)),
   Function(<<Function(<<Variable(1)>>, ty_a), ty_b>>, Variable(1)),
   UnionOf({Variable(1), ty_a}), UnionOf({Variable(1), Variable(2)}),
   UnionOf({Function(<<Variable(1)>>, Variable(2)), ty_b}),
   Instance(<<"A">>, Dict1("x", Variable(1)), NoName),
   Instance(<<"C", "B">>, Dict1("a", UnionOf({Variable(2), ty_a})), NoName),
   ConstantType({1}, Absent, EmptyStore).ty}

SubstImages ==
  {ty_a, ty_b, Variable(1), Variable(2), Variable(3),
   UnionOf({ty_b, ty_c}), UnionOf({Variable(2), ty_a}),
   Function(<<ty_a>>, Variable(3)), Function(<<Variable(1)>>, ty_a)}

SubstMappings ==
  UNION {[keys -> SubstImages] : keys \in SUBSET {Variable(1), Variable(2)}}

SubstInit ==
  /\ StoreIs(EmptyStore)
  /\ op = "init"
  /\ ret = NoResult
  /\ NoMRO
  /\ \E tp \in SubstTypes, mapping \in SubstMappings : args = <<tp, mapping>>

Call_Type_substitute ==
  /\ op = "init"
  /\ op' = "substitute"
  /\ ret' = Type_substitute(args[1], args[2])
  /\ UNCHANGED <<args, store_vars, mro_vars>>

Call_Type_substitute_again ==
  /\ op = "substitute"
  /\ op' = "substitute.substitute"
  /\ ret' = Type_substitute(ret, args[2])
  /\ UNCHANGED <<args, store_vars, mro_vars>>

SubstNext == Call_Type_substitute \/ Call_Type_substitute_again

SubstSpec == SubstInit /\ [][SubstNext]_vars

(* SatEncoder.Solve.  The SAT problem is not part of the repository: what *)
(* it holds after sat.Solve() is a sequence, in the order its iteration   *)
(* gives, of propositions with the value True, False or None (unknown).   *)

MaxPropositions == 3

Inequality(subtype, supertype) == [subtype |-> subtype, supertype |-> supertype]

Assigned(var, value) == [var |-> var, value |-> value]

Results(items) == [k |-> "dict", items |-> items]

setdefault(d, key, default) ==
  IF key \in DOMAIN d THEN d
  ELSE [x \in DOMAIN d \cup {key} |-> IF x = key THEN default ELSE d[x]]

setitem(d, key, value) ==
  [x \in DOMAIN d \cup {key} |-> IF x = key THEN value ELSE d[x]]

(* The body of the loop of Solve for one proposition of value True.  acc  *)
(* holds results, the store, and whether a meet or join has raised.       *)
Solve_upper(acc, var) ==
  IF var.subtype.k # "Variable" THEN acc
  ELSE LET results == setdefault(acc.results, var.subtype, <<Nothing, Object>>)
           lower == results[var.subtype][1]
           upper == results[var.subtype][2]
           r == meet(upper, var.supertype, acc.st)
       IN IF contains_variable(var.supertype)
          THEN [acc EXCEPT !.results = results]
          ELSE IF r.ty = TypeError
          THEN [results |-> results, st |-> r.st, raised |-> TRUE]
          ELSE [results |-> setitem(results, var.subtype, <<lower, r.ty>>),
                st |-> r.st, raised |-> FALSE]

Solve_lower(acc, var) ==
  IF var.supertype.k # "Variable" \/ acc.raised THEN acc
  ELSE LET results == setdefault(acc.results, var.supertype,
                                 <<Nothing, Object>>)
           lower == results[var.supertype][1]
           upper == results[var.supertype][2]
           r == join(lower, var.subtype, acc.st)
       IN IF contains_variable(var.subtype)
          THEN [acc EXCEPT !.results = results]
          ELSE IF r.ty = TypeError
          THEN [results |-> results, st |-> r.st, raised |-> TRUE]
          ELSE [results |-> setitem(results, var.supertype, <<r.ty, upper>>),
                st |-> r.st, raised |-> FALSE]

RECURSIVE Solve_loop(_, _, _)
Solve_loop(sat, i, acc) ==
  IF i > Len(sat) \/ acc.raised THEN acc
  ELSE Solve_loop(sat, i + 1,
                  IF sat[i].value = "True"
                  THEN Solve_lower(Solve_upper(acc, sat[i].var), sat[i].var)
                  ELSE acc)

SatEncoder_Solve(sat, st) ==
  Solve_loop(sat, 1, [results |-> [x \in {} |-> x], st |-> st,
                      raised |-> FALSE])

SolveTypes ==
  {ty_a, ty_c, ty_d, Instance(<<"A", "B">>, EmptyDict, NoName),
   Instance(<<"B", "A">>, EmptyDict, NoName), Function(<<ty_a>>, ty_b),
   UnionOf({ty_a, ty_b})}

SolveAssigned ==
  {Assigned(Inequality(Variable(1), tp), "True") : tp \in SolveTypes}
  \cup {Assigned(Inequality(tp, Variable(1)), "True") : tp \in SolveTypes}
  \cup {Assigned(Inequality(Variable(1), Variable(2)), "True"),
        Assigned(Inequality(ty_c, ty_a), "True"),
        Assigned(Inequality(Variable(1), ty_b), "False"),
        Assigned(Inequality(ty_b, Variable(1)), "None")}

SolveInputs ==
  {sat \in SeqsUpTo(SolveAssigned, MaxPropositions) :
     \A i, j \in 1..Len(sat) : i # j => sat[i].var # sat[j].var}

SolveStore ==
  [EmptyStore EXCEPT !.variables = {Variable(1), Variable(2)},
                     !.next_identity = 3]

SolveInit ==
  /\ StoreIs(SolveStore)
  /\ op = "init"
  /\ ret = NoResult
  /\ NoMRO
  /\ \E sat \in SolveInputs : args = <<sat>>

Call_SatEncoder_Solve ==
  /\ op = "init"
  /\ op' = "SatEncoder.Solve"
  /\ LET r == SatEncoder_Solve(args[1], Store)
     IN /\ ret' = IF r.raised THEN TypeError ELSE Results(r.results)
        /\ SetStore(r.st)
  /\ UNCHANGED <<args, mro_vars>>

SolveSpec == SolveInit /\ [][Call_SatEncoder_Solve]_vars

(* SatEncoder._FindTypes and the loop of SatEncoder.SolveIterate.  ret    *)
(* holds the locals of SolveIterate: the round i, the type_set of the     *)
(* last Generate and the results of the last Solve.                       *)

MaxTrue == 2

(* The types a visitor is called on when a type is visited. *)
RECURSIVE Type_visit(_)
Type_visit(tp) ==
  {tp} \cup
  CASE tp.k = "Function" ->
         UNION {Type_visit(tp.argument_types[i]) :
                  i \in 1..Len(tp.argument_types)}
         \cup Type_visit(tp.return_type)
    [] tp.k = "Instance" ->
         UNION {Type_visit(tp.other_members[n]) : n \in Keys(tp.other_members)}
    [] tp.k = "Union" -> UNION {Type_visit(t) : t \in tp.subtypes}
    [] OTHER -> {}

FindAllTypes_visit(tp) == {Type_remove_constants(t) : t \in Type_visit(tp)}

visit_all_types(st) ==
  UNION {FindAllTypes_visit(c.left) \cup FindAllTypes_visit(c.right) :
           c \in st.constraints \cup st.completed_constraints}
  \cup UNION {FindAllTypes_visit(ty) : ty \in st.target_types}

(* A mutation: the structures of the types found are not descended into. *)
FindTypes_structures_skipped(types) == {}

FindTypes_structures(types) ==
  UNION {FindAllTypes_visit(get_structure(ty)[n]) :
           <<ty, n>> \in {p \in types \X Names :
                            /\ p[1].k = "Instance"
                            /\ p[2] \in Keys(get_structure(p[1]))}}

RECURSIVE FindTypes_closure(_)
FindTypes_closure(types) ==
  IF FindTypes_structures(types) \subseteq types THEN types
  ELSE FindTypes_closure(types \cup FindTypes_structures(types))

UNINTERESTING_TYPES == {Object, Nothing}

AddSubst(types, results) ==
  types \cup
  UNION {(IF results[var][1] \in UNINTERESTING_TYPES THEN {}
          ELSE FindAllTypes_visit(
                 Type_substitute(ty, [x \in {var} |-> results[var][1]])))
         \cup
         (IF results[var][2] \in UNINTERESTING_TYPES THEN {}
          ELSE FindAllTypes_visit(
                 Type_substitute(ty, [x \in {var} |-> results[var][2]]))) :
           <<ty, var>> \in types \X DOMAIN results}

_FindTypes(st, results) ==
  AddSubst(FindTypes_closure(visit_all_types(st)) \cup {Object, Nothing},
           results)

Locals(i, type_set, results) ==
  [k |-> "SolveIterate", i |-> i, type_set |-> type_set, results |-> results]

(* What the solver may hold after sat.Solve(): propositions between a     *)
(* Variable and a type without variables of the type set, set true.       *)
(* Those with Object or Nothing are left out: they change no bound.       *)
SolverTrue(type_set) ==
  LET vs == {tp \in type_set : tp.k = "Variable"}
      cs == {tp \in type_set \ UNINTERESTING_TYPES : ~contains_variable(tp)}
  IN {Assigned(Inequality(v, c), "True") : <<v, c>> \in vs \X cs}
     \cup {Assigned(Inequality(c, v), "True") : <<v, c>> \in vs \X cs}

SolverInputs(type_set) ==
  {sat \in SeqsUpTo(SolverTrue(type_set), MaxTrue) :
     \A i, j \in 1..Len(sat) : i # j => sat[i] # sat[j]}

SolveIterate_Generate ==
  /\ op \in {"init", "SolveIterate.Solve"}
  /\ op = "SolveIterate.Solve" => ret.i = 0
  /\ op' = "SolveIterate.Generate"
  /\ \E o \in SatEncoder_Generate(Store) :
       /\ SetStore(o.st)
       /\ ret' = IF op = "init"
                 THEN Locals(0, _FindTypes(o.st, [x \in {} |-> x]),
                             [x \in {} |-> x])
                 ELSE Locals(1, _FindTypes(o.st, ret.results), ret.results)
  /\ UNCHANGED <<args, mro_vars>>

SolveIterate_Solve ==
  /\ op = "SolveIterate.Generate"
  /\ \E sat \in SolverInputs(ret.type_set) :
       LET r == SatEncoder_Solve(sat, Store)
       IN /\ op' = IF r.raised THEN "SolveIterate.raise"
                   ELSE "SolveIterate.Solve"
          /\ ret' = IF r.raised THEN TypeError
                    ELSE Locals(ret.i, ret.type_set, r.results)
          /\ SetStore(r.st)
  /\ UNCHANGED <<args, mro_vars>>

UniverseConstraints ==
  {SubtypeConstraint(Variable(1), ty_c),
   SubtypeConstraint(Variable(1), Instance(<<"E">>, EmptyDict, NoName)),
   SubtypeConstraint(Function(<<Variable(1)>>, ty_b), Variable(2)),
   SubtypeConstraint(Variable(2),
                     Instance(<<"A">>, Dict1("a", Variable(1)), NoName)),
   EqualityConstraint(Variable(2), ConstantType({1}, Absent, EmptyStore).ty)}

UniverseStores ==
  {[EmptyStore EXCEPT !.constraints = cs,
                      !.target_types = {UnionOf({Variable(1), ty_b})},
                      !.variables = {Variable(1), Variable(2)},
                      !.next_identity = 3] :
     cs \in {c \in SUBSET UniverseConstraints :
               Cardinality(c) <= MaxConstraints}}

UniverseInit ==
  /\ \E st \in UniverseStores : StoreIs(st)
  /\ op = "init"
  /\ ret = NoResult
  /\ NoMRO
  /\ args = <<>>

UniverseNext == SolveIterate_Generate \/ SolveIterate_Solve

UniverseSpec == UniverseInit /\ [][UniverseNext]_vars

(* eliminate_equality_constrained_variables applied to stores with up to *)
(* three variables and chains of equality constraints.                    *)

EqualityConstraints ==
  {EqualityConstraint(Variable(1), Function(<<Variable(2)>>, ty_a)),
   EqualityConstraint(Variable(2), ty_a),
   EqualityConstraint(Variable(1), Variable(2)),
   EqualityConstraint(Variable(2), Variable(1)),
   EqualityConstraint(Variable(1), ty_b),
   EqualityConstraint(Variable(3), Variable(1)),
   EqualityConstraint(ty_a, Variable(3)),
   SubtypeConstraint(Variable(1), ty_b),
   SubtypeConstraint(Function(<<Variable(1)>>, Variable(2)), Variable(3)),
   SubtypeConstraint(Variable(3), ty_c)}

EqualityStores ==
  {[EmptyStore EXCEPT !.constraints = cs, !.target_types = tt,
                      !.variables = {Variable(1), Variable(2), Variable(3)},
                      !.next_identity = 4] :
     cs \in {cs \in SUBSET EqualityConstraints :
               /\ Cardinality(cs) <= MaxConstraints + 1
               /\ \A c, d \in cs : SameSides(c, d) => c = d},
     tt \in {{}, {Variable(1)}}}

EqualityInit ==
  /\ \E st \in EqualityStores : StoreIs(st)
  /\ op = "init"
  /\ ret = NoResult
  /\ NoMRO
  /\ args = <<>>

EqualitySpec ==
  EqualityInit
  /\ [][Call_rewrite("eliminate_equality_constrained_variables")]_vars

----------------------------------------------------------------------------
(* eliminate_trivially_super_bounded_variables round by round.  The order *)
(* in which the loop visits the variables is drawn with the store;        *)
(* local_seqs holds the variables still to visit and ret the value of     *)
(* changed while the loop runs.                                           *)

TrivialName == "eliminate_trivially_super_bounded_variables"

TrivialInit ==
  /\ \E st \in SimplifyStores :
       /\ StoreIs(st)
       /\ \E variables_list \in Orders(st.variables) : args = <<variables_list>>
  /\ op = "init"
  /\ ret = NoResult
  /\ NoMRO

Call_eliminate_trivially_super_bounded_variables ==
  /\ op = "init"
  /\ op' = TrivialName
  /\ local_seqs' = args[1]
  /\ ret' = "False"
  /\ UNCHANGED <<args, store_vars, _classes, local_res>>

trivially_super_bounded_next ==
  /\ op = TrivialName
  /\ local_seqs # <<>>
  /\ \E o \in trivially_super_bounded_round(Store, Head(local_seqs),
                                            ret = "True") :
       /\ SetStore(o.st)
       /\ ret' = IF o.changed THEN "True" ELSE "False"
  /\ local_seqs' = Tail(local_seqs)
  /\ UNCHANGED <<op, args, _classes, local_res>>

trivially_super_bounded_return ==
  /\ op = TrivialName
  /\ local_seqs = <<>>
  /\ op' = "eliminate_trivially_super_bounded_variables.return"
  /\ UNCHANGED <<args, ret, store_vars, mro_vars>>

TrivialNext ==
  \/ Call_eliminate_trivially_super_bounded_variables
  \/ trivially_super_bounded_next
  \/ trivially_super_bounded_return

TrivialSpec == TrivialInit /\ [][TrivialNext]_vars

(* eliminate_variables_by_transitivity round by round, on stores of up   *)
(* to MaxConstraints + 1 constraints; local_seqs holds the variables      *)
(* still to visit and ret the value of changed while the loop runs.       *)

BridgeName == "eliminate_variables_by_transitivity"

BridgeConstraints ==
  {SubtypeConstraint(ty_b, Variable(1)),
   SubtypeConstraint(ty_c, Variable(1)),
   SubtypeConstraint(ty_a, Variable(1)),
   SubtypeConstraint(Variable(1), ty_a),
   SubtypeConstraint(Variable(1), Variable(2)),
   SubtypeConstraint(Variable(2), ty_a),
   SubtypeConstraint(Variable(2), ty_b),
   SubtypeConstraint(ty_b, ty_a),
   EqualityConstraint(ty_b, ty_a),
   EqualityConstraint(Variable(1), ty_a),
   EqualityConstraint(Variable(2), Variable(1)),
   SubtypeConstraint(Variable(1), Function(<<Variable(2)>>, ty_a)),
   SubtypeConstraint(Function(<<Variable(1)>>, ty_a), Variable(2)),
   SubtypeConstraint(Variable(1), Function(<<Variable(1)>>, ty_a))}

BridgeStores ==
  {[EmptyStore EXCEPT !.constraints = cs,
                      !.variables = {Variable(1), Variable(2)},
                      !.next_identity = 3] :
     cs \in {cs \in SUBSET BridgeConstraints :
               /\ Cardinality(cs) <= MaxConstraints + 1
               /\ \A c, d \in cs : SameSides(c, d) => c = d}}

BridgeInit ==
  /\ \E st \in BridgeStores :
       /\ StoreIs(st)
       /\ \E variables_list \in Orders(st.variables) : args = <<variables_list>>
  /\ op = "init"
  /\ ret = NoResult
  /\ NoMRO

Call_eliminate_variables_by_transitivity ==
  /\ op = "init"
  /\ op' = BridgeName
  /\ local_seqs' = args[1]
  /\ ret' = "False"
  /\ UNCHANGED <<args, store_vars, _classes, local_res>>

by_transitivity_next ==
  /\ op = BridgeName
  /\ local_seqs # <<>>
  /\ \E o \in by_transitivity_round(Store, Head(local_seqs), ret = "True") :
       /\ SetStore(o.st)
       /\ ret' = IF o.changed THEN "True" ELSE "False"
  /\ local_seqs' = Tail(local_seqs)
  /\ UNCHANGED <<op, args, _classes, local_res>>

by_transitivity_return ==
  /\ op = BridgeName
  /\ local_seqs = <<>>
  /\ op' = "eliminate_variables_by_transitivity.return"
  /\ UNCHANGED <<args, ret, store_vars, mro_vars>>

BridgeNext ==
  \/ Call_eliminate_variables_by_transitivity
  \/ by_transitivity_next
  \/ by_transitivity_return

BridgeSpec == BridgeInit /\ [][BridgeNext]_vars

(* unify_subtype_constraint(left, right) on a store that may hold the     *)
(* constraint left <: right and up to two more.                           *)

UnifyPairs ==
  {<<Function(<<Variable(1)>>, ty_a), Function(<<ty_b>>, Variable(2))>>,
   <<Function(<<ty_a>>, Variable(1)), Function(<<ty_a>>, ty_b)>>,
   <<Function(<<Variable(1)>>, ty_a), Function(<<Variable(1)>>, Variable(2))>>,
   <<Function(<<Function(<<Variable(1)>>, ty_a)>>, ty_b),
     Function(<<Function(<<ty_b>>, Variable(2))>>, Variable(1))>>,
   <<Function(<<>>, ty_a), Function(<<ty_a>>, ty_a)>>,
   <<Function(<<ty_a>>, ty_b), ty_a>>,
   <<Instance(<<"A">>, Dict1("x", Variable(1)), NoName),
     Instance(<<"A">>, Dict1("x", ty_b), NoName)>>,
   <<Instance(<<"A">>, Dict1("x", Variable(1)), NoName), ty_a>>,
   <<ty_b, Instance(<<"B">>, Dict1("a", Variable(1)), NoName)>>,
   <<Instance(<<"C", "B">>, Dict1("a", Variable(2)), NoName),
     Instance(<<"B">>, Dict1("x", Variable(1)), NoName)>>,
   <<Instance(<<"C", "B">>, Dict1("a", Variable(2)), NoName), ty_b>>,
   <<ty_a, ty_b>>,
   <<ty_b, ty_c>>,
   <<Variable(1), ty_a>>,
   <<ty_a, Variable(1)>>,
   <<Variable(1), Variable(2)>>,
   <<UnionOf({ty_a, ty_b}), Variable(1)>>}

UnifyOthers ==
  {SubtypeConstraint(Variable(1), ty_b),
   SubtypeConstraint(ty_b, Variable(1)),
   EqualityConstraint(ty_b, Variable(1)),
   EqualityConstraint(Variable(2), ty_a),
   SubtypeConstraint(ty_a, Variable(2))}

UnifyInit ==
  /\ \E pair \in UnifyPairs :
       /\ args = pair
       /\ \E cs \in SUBSET (UnifyOthers
                            \cup {SubtypeConstraint(pair[1], pair[2])}) :
            /\ Cardinality(cs) <= MaxConstraints + 1
            /\ \A c, d \in cs : SameSides(c, d) => c = d
            /\ StoreIs([EmptyStore EXCEPT
                          !.constraints = cs,
                          !.variables = {Variable(1), Variable(2)},
                          !.next_identity = 3])
  /\ op = "init"
  /\ ret = NoResult
  /\ NoMRO

Call_unify_subtype_constraint ==
  /\ op = "init"
  /\ op' = "unify_subtype_constraint"
  /\ SetStore(unify_subtype_constraint(Store, args[1], args[2]))
  /\ ret' = None
  /\ UNCHANGED <<args, mro_vars>>

UnifySpec == UnifyInit /\ [][Call_unify_subtype_constraint]_vars

(* longest_common_subsequence on two sequences of classes of up to        *)
(* MaxLcsLen elements.                                                    *)

MaxLcsLen == 3

LcsInputs == UNION {[1..n -> ClassNames] : n \in 0..MaxLcsLen}

LcsInit ==
  /\ StoreIs(EmptyStore)
  /\ op = "init"
  /\ ret = NoResult
  /\ NoMRO
  /\ \E seq1, seq2 \in LcsInputs : args = <<seq1, seq2>>

Call_longest_common_subsequence ==
  /\ op = "init"
  /\ op' = "longest_common_subsequence"
  /\ LET r == longest_common_subsequence(args[1], args[2])
     IN ret' = Tuple(<<r.lcs, r.lost1, r.lost2>>)
  /\ UNCHANGED <<args, store_vars, mro_vars>>

LcsSpec == LcsInit /\ [][Call_longest_common_subsequence]_vars

(* Claims on the subtype predicate *)

(* C1: for closed A, B, C, if A <: B and B <: C then A <: C. *)
C1_Transitive ==
  (op = "issubtypeof" /\ ret /\ issubtypeof(args[2], args[3]))
    => issubtypeof(args[1], args[3])

(* C2: T.issubtypeof(T) is true for every closed type T. *)
C2_Reflexive ==
  (op = "issubtypeof" /\ args[1] = args[2]) => ret

(* C3: for closed Instances I1 and I2, I1.issubtypeof(I2) is true exactly *)
(* when I2's MRO is a subsequence of I1's and every key of I2's effective *)
(* structure is a key of I1's effective structure with a subtype value.   *)
C3_InstanceRule ==
  (op = "issubtypeof" /\ args[1].k = "Instance" /\ args[2].k = "Instance")
    => ret = (/\ is_subsequence(args[2].mro, args[1].mro)
              /\ \A n \in Keys(get_structure(args[2])) :
                   /\ get_structure(args[1])[n] # Absent
                   /\ issubtypeof(get_structure(args[1])[n],
                                  get_structure(args[2])[n]))

(* C8: for every T other than Dynamic, T.issubtypeof(Dynamic) and         *)
(* Dynamic.issubtypeof(T) are false, and so are T.issupertypeof(Dynamic)  *)
(* and Dynamic.issupertypeof(T).                                          *)
C8_DynamicIncomparable ==
  (/\ op \in {"issubtypeof", "issupertypeof"}
   /\ (args[1] = Dynamic) # (args[2] = Dynamic))
    => ret = FALSE

SameArity(f, g) == Len(f.argument_types) = Len(g.argument_types)

(* C9: Function(a1..an, r).issubtypeof(Function(b1..bn, s)) is true       *)
(* exactly when every bi is a subtype of ai and r is a subtype of s; for  *)
(* unequal arities it is false.                                           *)
C9_FunctionVariance ==
  (op = "issubtypeof" /\ args[1].k = "Function" /\ args[2].k = "Function")
    => ret = (/\ SameArity(args[1], args[2])
              /\ \A i \in 1..Len(args[1].argument_types) :
                   issubtypeof(args[2].argument_types[i],
                               args[1].argument_types[i])
              /\ issubtypeof(args[1].return_type, args[2].return_type))

C9_Witness ==
  /\ op = "issubtypeof"
  /\ args[1].k = "Function" /\ args[2].k = "Function"
  /\ Len(args[1].argument_types) = 1 /\ SameArity(args[1], args[2])
  /\ ~TypeEq(args[1].argument_types[1], args[2].argument_types[1])
  /\ ~TypeEq(args[1].return_type, args[2].return_type)
  /\ ret = TRUE

----------------------------------------------------------------------------
(* Claims on join and meet *)

(* C4: for closed a and b on which join and meet are defined, a and b are *)
(* subtypes of a.join(b), and a.meet(b) is a subtype of a and of b.       *)
C4_Bounds ==
  /\ (op = "join" /\ ret # TypeError /\ ~contains_variable(ret))
       => issubtypeof(args[1], ret) /\ issubtypeof(args[2], ret)
  /\ (op = "meet" /\ ret # TypeError /\ ~contains_variable(ret))
       => issubtypeof(ret, args[1]) /\ issubtypeof(ret, args[2])

(* C5: on closed types join and meet are commutative and idempotent up to *)
(* type equality: a.join(b) = b.join(a), a.meet(b) = b.meet(a),           *)
(* a.join(a) = a and a.meet(a) = a.                                       *)
C5_CommutativeIdempotent ==
  /\ op = "join" => TypeEq(ret, join(args[2], args[1], EmptyStore).ty)
  /\ op = "meet" => TypeEq(ret, meet(args[2], args[1], EmptyStore).ty)
  /\ (op \in {"join", "meet"} /\ args[1] = args[2]) => TypeEq(ret, args[1])

Basic == {"Object", "Nothing", "Function", "Instance", "Union"}

----------------------------------------------------------------------------
(* Claims on the Union constructor *)

(* C7: the Union constructor gives Bottom for an empty input, the member  *)
(* itself for an input whose members are all equal, and otherwise a Union *)
(* of at least two members, pairwise unequal under type equality, none of *)
(* which is a Union.                                                      *)
C7_UnionNormalForm ==
  op = "Union" =>
    LET S == args[1]
    IN IF S = {} THEN ret = Nothing
       ELSE IF \A x, y \in S : TypeEq(x, y) THEN ret \in S
       ELSE /\ ret.k = "Union"
            /\ Cardinality(ret.subtypes) >= 2
            /\ \A x, y \in ret.subtypes :
                 /\ x # y => ~TypeEq(x, y)
                 /\ x.k # "Union"

----------------------------------------------------------------------------
(* Claims on simplify *)

SolutionTypes == {Object, Nothing, ty_a, ty_b, ty_c}

Satisfies(assignment, c) ==
  LET left == Type_substitute(c.left, assignment)
      right == Type_substitute(c.right, assignment)
  IN IF c.tag = "SubtypeConstraint" THEN issubtypeof(left, right)
     ELSE TypeEq(left, right)

(* C10: every assignment of types to the variables that satisfies all the *)
(* constraints active after simplify() satisfies every constraint that    *)
(* was active before it.                                                  *)
C10_SimplifySound ==
  [][(op' = "simplify" /\ ret' = "done") =>
       \A assignment \in [variables' -> SolutionTypes] :
         (\A c \in constraints' : Satisfies(assignment, c))
           => \A c \in constraints : Satisfies(assignment, c)]_vars

(* C11: simplify() terminates: its loop reaches a round in which no       *)
(* rewrite changes the store, so it is never still running after          *)
(* MaxRounds rounds that each changed the store.                          *)
C11_Terminates == op = "simplify" => ret # "running"

(* C12: simplify() never raises: no rewrite it runs ends in a TypeError.  *)
C12_NeverRaises == op = "simplify" => ret # "TypeError"

----------------------------------------------------------------------------
(* Claims on the rewrites and the encoders *)

(* C13: a rewrite that raises leaves the active constraints, the          *)
(* completed constraints and the variable registry as they were before    *)
(* the call.                                                              *)
C13_FailureKeepsStore ==
  [][ret' = "TypeError" =>
       /\ constraints' = constraints
       /\ completed_constraints' = completed_constraints
       /\ variables' = variables]_vars

Encoders == {"SatEncoder.Generate", "DatalogEncoder.generate"}

HasConstant(c) ==
  Type_remove_constants(c.left) # c.left
    \/ Type_remove_constants(c.right) # c.right

----------------------------------------------------------------------------
(* Claims on the operations that emit constraints *)

(* C15: after constrain_equal(a, b) with a not equal to b the equality-   *)
(* tagged constraint (a = b) is in the active set, whatever was active    *)
(* before, the subtype-tagged constraint on the same pair included.       *)
C15_EqualityAdded ==
  (op = "constrain_equal" /\ ~TypeEq(args[1], args[2]))
    => EqualityConstraint(args[1], args[2]) \in constraints

(* C16: constrain_subtype(a, b) leaves the active set as it was when a    *)
(* equals b or (a <: b) is already active, and otherwise adds the one     *)
(* constraint (a <: b) to it; completed, targets and the variable         *)
(* registry are never touched.                                            *)
C16_SubtypeAdded ==
  [][op' = "constrain_subtype" =>
       LET c == SubtypeConstraint(args[1], args[2])
       IN /\ constraints' =
               IF TypeEq(args[1], args[2]) \/ c \in constraints
               THEN constraints ELSE constraints \cup {c}
          /\ UNCHANGED <<completed_constraints, target_types, variables,
                         next_identity>>]_vars

(* C17: new_variable_supertype(x, y) returns x or y, whichever the        *)
(* store's issubtypeof says is a supertype of the other, and leaves the   *)
(* store alone; when it says so of neither (False or unknown) it          *)
(* registers one new variable V, adds exactly x <: V and y <: V and       *)
(* returns V.  new_variable_subtype is the dual, with V <: x and V <: y.  *)
C17_FreshVariableBounds ==
  [][op' \in {"new_variable_supertype", "new_variable_subtype"} =>
       LET x == args[1]
           y == args[2]
           V == Variable(next_identity)
           super == op' = "new_variable_supertype"
           below(a, b) == IF super THEN store_issubtypeof(Store, a, b) = "True"
                          ELSE store_issubtypeof(Store, b, a) = "True"
           bound(a) == IF super THEN SubtypeConstraint(a, V)
                       ELSE SubtypeConstraint(V, a)
       IN IF below(x, y) \/ below(y, x)
          THEN /\ UNCHANGED store_vars
               /\ ret' \in {x, y}
               /\ ret' = x => below(y, x)
               /\ ret' = y => below(x, y)
          ELSE /\ ret' = V /\ V \notin variables
               /\ variables' = variables \cup {V}
               /\ constraints' = constraints \cup {bound(x), bound(y)}
               /\ UNCHANGED <<completed_constraints, target_types>>]_vars

C17_Witness ==
  /\ op = "new_variable_supertype"
  /\ args[1].k = "Variable" /\ args[2].k = "Instance"
  /\ ret.k = "Variable" /\ ret \notin {args[1], args[2]}
  /\ ret \in variables
  /\ SubtypeConstraint(args[1], ret) \in constraints
  /\ SubtypeConstraint(args[2], ret) \in constraints

----------------------------------------------------------------------------
(* Claims on remove_constants *)

RECURSIVE contains_constant(_)
contains_constant(tp) ==
  CASE tp.k = "ConstantType" -> TRUE
    [] tp.k = "Function" ->
         \/ \E i \in 1..Len(tp.argument_types) :
              contains_constant(tp.argument_types[i])
         \/ contains_constant(tp.return_type)
    [] tp.k = "Instance" ->
         \E n \in Keys(tp.other_members) :
           contains_constant(tp.other_members[n])
    [] tp.k = "Union" -> \E t \in tp.subtypes : contains_constant(t)
    [] OTHER -> FALSE

(* C18: after remove_constants() no Constant occurs at any depth in an    *)
(* active constraint or in a target type.                                 *)
C18_NoConstantLeft ==
  op = "remove_constants" =>
    /\ \A c \in constraints :
         ~contains_constant(c.left) /\ ~contains_constant(c.right)
    /\ \A tp \in target_types : ~contains_constant(tp)

----------------------------------------------------------------------------
(* Claims on MRO objects and merge_mros *)

(* C19: setting the classes of an MRO whose classes are not set succeeds  *)
(* and fixes them; every later attempt to set them raises ValueError and  *)
(* leaves them as they are; reading the classes raises ValueError while   *)
(* they are not set, and gives them once they are.                        *)
C19_SetOnce ==
  [][/\ (op' = "classes.setter" /\ _classes = None)
          => _classes' = Tuple(args'[1].items) /\ ret' = None
     /\ (op' = "classes.setter" /\ _classes # None)
          => _classes' = _classes /\ ret' = ValueError
     /\ (op' = "classes" /\ _classes = None) => ret' = ValueError
     /\ (op' = "classes" /\ _classes # None)
          => ret' = _classes /\ _classes' = _classes]_vars

C19_Witness ==
  /\ op = "classes.setter"
  /\ ret = ValueError
  /\ _classes # None
  /\ _classes.items # args[1].items

InputClasses == {args[1][i][j] : <<i, j>> \in
                   {p \in (1..Len(args[1])) \X (1..MaxMroLen) :
                      p[2] <= Len(args[1][p[1]])}}

Positions(c, seq) == {i \in 1..Len(seq) : seq[i] = c}

KeepsOrder(seq, linearization) ==
  \A i, j \in 1..Len(seq) :
    i < j => \E m, n \in 1..Len(linearization) :
               m < n /\ linearization[m] = seq[i] /\ linearization[n] = seq[j]

(* C20: every call of merge_mros comes to an end; when it returns, the    *)
(* result holds every class of the inputs exactly once and nothing else,  *)
(* and keeps the relative order of every input; when it raises, some      *)
(* input is not used up and the head of every such input is in the tail   *)
(* of a remaining input.                                                  *)
C20_MergeLinearizes ==
  /\ (op = "merge_mros") ~> (op \in {"merge_mros.return", "merge_mros.raise"})
  /\ [](op = "merge_mros.return" =>
          /\ \A c \in InputClasses : Cardinality(Positions(c, ret.items)) = 1
          /\ Len(ret.items) = Cardinality(InputClasses)
          /\ \A i \in 1..Len(args[1]) : KeepsOrder(args[1][i], ret.items))
  /\ [](op = "merge_mros.raise" =>
          /\ \E i \in 1..Len(local_seqs) : local_seqs[i] # <<>>
          /\ \A i \in 1..Len(local_seqs) :
               local_seqs[i] # <<>> =>
                 \E j \in 1..Len(local_seqs) :
                   /\ local_seqs[j] # <<>>
                   /\ InSeq(local_seqs[i][1], Tail(local_seqs[j])))

C20_Witness ==
  /\ op = "merge_mros.return"
  /\ Len(args[1]) = 2
  /\ Len(args[1][1]) = 2
  /\ Len(args[1][2]) = 2
  /\ args[1][1] # args[1][2]
  /\ Len(ret.items) = 3

----------------------------------------------------------------------------
(* Claims on substitution *)

CodomainHasNoKey(mapping) ==
  \A key, other \in DOMAIN mapping : ~Type_contains(mapping[key], other)

(* C21: when no type the mapping maps to contains a key of the mapping,   *)
(* substituting with the mapping a second time gives the type the first   *)
(* substitution gave.                                                     *)
C21_SubstituteIdempotent ==
  [][(op' = "substitute.substitute" /\ CodomainHasNoKey(args[2]))
       => ret' = ret /\ TypeEq(ret', ret)]_vars

C21_Witness ==
  /\ op = "substitute.substitute"
  /\ CodomainHasNoKey(args[2])
  /\ DOMAIN args[2] = {Variable(1), Variable(2)}
  /\ args[2][Variable(1)].k = "Union"
  /\ args[1].k = "Union"
  /\ ret # args[1]

----------------------------------------------------------------------------
(* Claims on the SAT encoder *)

SolvedVariables ==
  {tp \in {args[1][i].var.subtype : i \in 1..Len(args[1])}
            \cup {args[1][i].var.supertype : i \in 1..Len(args[1])} :
     /\ tp.k = "Variable"
     /\ \E i \in 1..Len(args[1]) :
          /\ args[1][i].value = "True"
          /\ tp \in {args[1][i].var.subtype, args[1][i].var.supertype}}

TrueLower(item, V) ==
  /\ item.value = "True"
  /\ item.var.supertype = V
  /\ ~contains_variable(item.var.subtype)

TrueUpper(item, V) ==
  /\ item.value = "True"
  /\ item.var.subtype = V
  /\ ~contains_variable(item.var.supertype)

LowerBounds(V) ==
  LET IsLower(item) == TrueLower(item, V)
      found == SelectSeq(args[1], IsLower)
  IN [i \in 1..Len(found) |-> found[i].var.subtype]

UpperBounds(V) ==
  LET IsUpper(item) == TrueUpper(item, V)
      found == SelectSeq(args[1], IsUpper)
  IN [i \in 1..Len(found) |-> found[i].var.supertype]

(* C22: Solve returns a pair for every Variable that is a side of a true  *)
(* proposition: the join, from Nothing, of the variable-free types C with *)
(* C <: V true, and the meet, from Object, of the variable-free types C   *)
(* with V <: C true; false and unknown propositions add nothing.          *)
C22_SolveBounds ==
  op = "SatEncoder.Solve" =>
    /\ ret # TypeError
    /\ DOMAIN ret.items = SolvedVariables
    /\ \A V \in SolvedVariables :
         /\ ret.items[V][1] = join_seq(LowerBounds(V), SolveStore).ty
         /\ ret.items[V][2] = meet_seq(UpperBounds(V), SolveStore).ty

RECURSIVE subterms(_)
subterms(tp) ==
  {tp} \cup
  CASE tp.k = "Function" ->
         UNION {subterms(tp.argument_types[i]) :
                  i \in 1..Len(tp.argument_types)}
         \cup subterms(tp.return_type)
    [] tp.k = "Instance" ->
         UNION {subterms(tp.other_members[n]) : n \in Keys(tp.other_members)}
    [] tp.k = "Union" -> UNION {subterms(t) : t \in tp.subtypes}
    [] OTHER -> {}

MemberTerms(type_set) ==
  UNION {subterms(get_structure(ty)[n]) :
           <<ty, n>> \in {p \in type_set \X Names :
                            /\ p[1].k = "Instance"
                            /\ p[2] \in Keys(get_structure(p[1]))}}

----------------------------------------------------------------------------
(* Claims on the rewrites of the store *)

Equalities(cs) == {c \in cs : c.tag = "EqualityConstraint"}

(* The equality constraints can be put in a row in which no right side    *)
(* holds the left side of its own or of a later constraint.               *)
NoCycle(eqs) ==
  \E row \in Orders(eqs) :
    \A i, j \in 1..Len(row) :
      i <= j => ~Type_contains(row[i].right, row[j].left)

DistinctVariablesOnLeft(eqs) ==
  /\ \A c \in eqs : c.left.k = "Variable"
  /\ \A c, d \in eqs : c.left = d.left => c = d

Occurs(var, cs) ==
  \E c \in cs : Type_contains(c.left, var) \/ Type_contains(c.right, var)

(* C24: when the left sides of the active equality constraints are        *)
(* distinct variables and the equalities form no cycle, then after        *)
(* eliminate_equality_constrained_variables no equality constraint is     *)
(* active and none of those variables occurs in an active constraint.     *)
C24_EqualitiesEliminated ==
  [][(/\ op' = "eliminate_equality_constrained_variables"
      /\ DistinctVariablesOnLeft(Equalities(constraints))
      /\ NoCycle(Equalities(constraints)))
       => /\ Equalities(constraints') = {}
          /\ \A c \in Equalities(constraints) : ~Occurs(c.left, constraints')]_vars

(* C25: every constraint that is active before a rewrite of the store and *)
(* not active after it is in the completed set after it.                  *)
C25_RemovedIsCompleted ==
  [][op' \in RewriteNames
       => \A c \in constraints \ constraints' : c \in completed_constraints']_vars

(* The active subtype constraints that bound var from above by a type     *)
(* that is no Variable.                                                   *)
SuperBounds(var, cs) ==
  {c \in cs : /\ c.tag = "SubtypeConstraint"
              /\ c.left = var
              /\ c.right.k # "Variable"}

MeetsOf(bounds, st) ==
  {meet_seq([i \in 1..Len(row) |-> row[i].right], st).ty :
     row \in Orders(bounds)}

(* C26: after meet_super_bounds every variable of the store has at most   *)
(* one active upper bound that is no Variable, and it is the meet of the  *)
(* upper bounds of that kind the variable had before; meet_super_bounds   *)
(* returns False when no variable had more than one of them.              *)
C26_SuperBoundsMet ==
  [][op' = "meet_super_bounds" =>
       /\ \A var \in variables :
            /\ Cardinality(SuperBounds(var, constraints')) <= 1
            /\ \A c \in SuperBounds(var, constraints') :
                 c.right \in MeetsOf(SuperBounds(var, constraints), Store)
       /\ (\A var \in variables :
             Cardinality(SuperBounds(var, constraints)) <= 1)
            => ret' = "False"]_vars

InTargets(var, types) == \E tp \in types : Type_contains(tp, var)

Replaced(cs, var, bound) == {Constraint_substitute(d, var :> bound) : d \in cs}

(* C27: a round of eliminate_trivially_super_bounded_variables on a       *)
(* variable with exactly one active upper bound var <: B takes that       *)
(* constraint out of the active set and, when B does not contain var,     *)
(* replaces var by B in every active constraint and target type, so that  *)
(* var occurs in none; a round on a variable with no or several upper     *)
(* bounds leaves the store as it was.  No round brings back a variable   *)
(* that occurs in no active constraint and no target type.                *)
C27_TrivialBoundEliminated ==
  [][(op = TrivialName /\ local_seqs # <<>> /\ local_seqs' = Tail(local_seqs))
       => /\ LET var == Head(local_seqs)
                 bounds == {c \in constraints :
                              c.left = var /\ c.tag = "SubtypeConstraint"}
             IN IF Cardinality(bounds) = 1
                THEN \A c \in bounds :
                       /\ c \notin constraints'
                       /\ ~Type_contains(c.right, var) =>
                            /\ ~Occurs(var, constraints')
                            /\ ~InTargets(var, target_types')
                            /\ \A d \in Replaced(constraints \ {c}, var,
                                                 c.right) :
                                 InConstraints(d, constraints')
                            /\ \A d \in constraints' :
                                 InConstraints(d, Replaced(constraints \ {c},
                                                           var, c.right))
                            /\ target_types' =
                                 {Type_substitute(tp, var :> c.right) :
                                    tp \in target_types}
                ELSE UNCHANGED store_vars
          /\ \A other \in variables :
               (~Occurs(other, constraints) /\ ~InTargets(other, target_types))
                 => (/\ ~Occurs(other, constraints')
                     /\ ~InTargets(other, target_types'))]_vars

C27_Witness ==
  /\ op = TrivialName
  /\ ret = "True"
  /\ local_seqs = <<Variable(2)>>
  /\ target_types = {ty_a}
  /\ SubtypeConstraint(ty_a, ty_a) \in completed_constraints
  /\ SubtypeConstraint(ty_b, ty_a) \in constraints

(* The active constraints with var as the whole of one side. *)
WithLeft(var, cs) == {c \in cs : c.left = var}

WithRight(var, cs) == {c \in cs : c.right = var}

Nested(var, cs) ==
  \E c \in cs : \/ c.left # var /\ Type_contains(c.left, var)
                \/ c.right # var /\ Type_contains(c.right, var)

Bridged(var, cs) ==
  /\ WithLeft(var, cs) # {}
  /\ WithRight(var, cs) # {}
  /\ ~Nested(var, cs)

(* C28: a round of eliminate_variables_by_transitivity on a variable that *)
(* is the whole left side of an active constraint, the whole right side   *)
(* of another and nested in no side retires every constraint with the     *)
(* variable as a side and leaves L <: R active for every L below and R    *)
(* above it with L not equal to R; a round on any other variable leaves   *)
(* the store as it was.                                                   *)
C28_BridgedByTransitivity ==
  [][(op = BridgeName /\ local_seqs # <<>> /\ local_seqs' = Tail(local_seqs))
       => LET var == Head(local_seqs)
          IN IF Bridged(var, constraints)
             THEN /\ \A c \in WithLeft(var, constraints)
                                \cup WithRight(var, constraints) :
                       c \notin constraints' /\ c \in completed_constraints'
                  /\ \A r \in WithRight(var, constraints) :
                       \A l \in WithLeft(var, constraints) :
                         ~TypeEq(r.left, l.right) =>
                           SubtypeConstraint(r.left, l.right) \in constraints'
             ELSE UNCHANGED store_vars]_vars

(* The constraints the decomposition of left <: right ends in: a pair of  *)
(* Functions of one arity gives those of its arguments, swapped, and of   *)
(* its return types, a pair of Instances with right's MRO a subsequence   *)
(* of left's gives those of the members both have, and any other pair     *)
(* gives left <: right itself.                                            *)
FunctionsUnify(left, right) ==
  /\ left.k = "Function" /\ right.k = "Function"
  /\ Len(left.argument_types) = Len(right.argument_types)

InstancesUnify(left, right) ==
  /\ left.k = "Instance" /\ right.k = "Instance"
  /\ is_subsequence(right.mro, left.mro)

RECURSIVE Decomposed(_, _)
Decomposed(left, right) ==
  IF FunctionsUnify(left, right)
  THEN UNION {Decomposed(right.argument_types[i], left.argument_types[i]) :
                i \in 1..Len(left.argument_types)}
       \cup Decomposed(left.return_type, right.return_type)
  ELSE IF InstancesUnify(left, right)
  THEN UNION {Decomposed(get_structure(left)[n], get_structure(right)[n]) :
                n \in Keys(get_structure(left)) \cap Keys(get_structure(right))}
  ELSE {SubtypeConstraint(left, right)}

(* C29: after unify_subtype_constraint(left, right) every constraint the  *)
(* decomposition of left <: right ends in is active, and left <: right is *)
(* not active when the pair is two Functions of one arity or two          *)
(* Instances with right's MRO a subsequence of left's.                    *)
C29_UnifyDecomposes ==
  op = "unify_subtype_constraint" =>
    /\ \A c \in Decomposed(args[1], args[2]) : c \in constraints
    /\ (FunctionsUnify(args[1], args[2]) \/ InstancesUnify(args[1], args[2]))
         => SubtypeConstraint(args[1], args[2]) \notin constraints

(* Claims on the longest common subsequence *)

(* The elements of seq at the positions in keep, in the order of seq. *)
Pick(seq, keep) == SelectSeq([i \in 1..Len(seq) |-> <<i, seq[i]>>],
                             LAMBDA p : p[1] \in keep)

Picked(seq, keep) == [i \in 1..Len(Pick(seq, keep)) |-> Pick(seq, keep)[i][2]]

Subsequences(seq) == {Picked(seq, keep) : keep \in SUBSET (1..Len(seq))}

(* used and rest split seq: used is a subsequence of seq and rest is what *)
(* is left of seq, in order, once the elements of used are taken out.     *)
Splits(seq, used, rest) ==
  \E keep \in SUBSET (1..Len(seq)) :
    /\ Picked(seq, keep) = used
    /\ Picked(seq, (1..Len(seq)) \ keep) = rest

(* C30: longest_common_subsequence(seq1, seq2) returns a common           *)
(* subsequence of seq1 and seq2 that no common subsequence is longer      *)
(* than, with the elements of seq1 it does not use and the elements of    *)
(* seq2 it does not use, each in their order.                             *)
C30_LongestCommonSubsequence ==
  op = "longest_common_subsequence" =>
    LET seq1 == args[1]
        seq2 == args[2]
        lcs == ret.items[1]
        lost1 == ret.items[2]
        lost2 == ret.items[3]
    IN /\ lcs \in Subsequences(seq1) \cap Subsequences(seq2)
       /\ \A common \in Subsequences(seq1) \cap Subsequences(seq2) :
            Len(common) <= Len(lcs)
       /\ Splits(seq1, lcs, lost1)
       /\ Splits(seq2, lcs, lost2)

====
